---- MODULE Spec2Model ----
(***************************************************************************)
(* A model of yamanote.                                                    *)
(*                                                                         *)
(*   Spec        the schema-v4 server: the handlers of the v4 index.ts,    *)
(*               kept in src/unnamed/part_007, with the render engine of   *)
(*               src/renderers.ts; one step is one request                 *)
(*   SpecStmt    POST /bookmark of the v4 server, one step per statement   *)
(*   Spec_v5     the schema-v5 server of src/index.ts                      *)
(*   SpecRender  direct calls of the render engine                         *)
(*   SpecFiles   the database files: dbInit of src/index.ts and the run of *)
(*               src/migrations/v3-to-v4.ts, one step per statement        *)
(*   SpecLog     the change log: dbInit of src/index.ts and single-row     *)
(*               statements on the tables it makes triggers for            *)
(*   SpecUp      the media loop of the migration from version 2 to 3,      *)
(*               src/unnamed/part_002, one step per statement              *)
(*   SpecDownload  the media download of the v4 server, one step per       *)
(*               request and per await of downloadImagesVideos             *)
(*                                                                         *)
(* Strings are sequences of tokens <<kind, n>>.  A token is either one     *)
(* character of user input (an atom of a url, a letter, a line break), a   *)
(* number interpolated by a template literal, or one piece of literal      *)
(* markup of a template.  Concatenation is \o, so indexOf, substring and   *)
(* slice act on a render as they do in the code.                           *)
(***************************************************************************)
EXTENDS Integers, Sequences, FiniteSets, TLC

VARIABLES
  bookmark,       \* table bookmark: id -> row
  comment,        \* table comment: id -> row
  backup,         \* table backup: id -> row
  media,          \* table media: set of rows
  blob,           \* table blob: set of rows
  sqlite_sequence, \* the last id of each AUTOINCREMENT table
  ALL_BOOKMARKS,  \* Map userId -> rendered feed of bookmarks
  ALL_COMMENTS,   \* Map userId -> rendered feed of comments
  clock,          \* Date.now()
  lastOp,         \* the request handled last, with its reply (ids only when it was accepted)
  req,            \* requests in flight, statement by statement
  probe,          \* inputs and results of direct calls of the render engine
  disk,           \* the directory .data: file name -> database
  migration       \* the run of migrations/v3-to-v4: its position and what it has read

vars == <<bookmark, comment, backup, media, blob, sqlite_sequence, ALL_BOOKMARKS, ALL_COMMENTS,
          clock, lastOp, req, probe, disk, migration>>

----------------------------------------------------------------------------
(* Bounds of the model *)

\* the clock stops the model at this time
MaxClock == 4
\* the 30 days after which a new snapshot is asked for, in ticks of the clock
ThrottleTicks == 2
\* number of bookmark rows ever inserted
MaxBookmarks == 2
\* number of comment rows held at once
MaxComments == 3
\* number of backup rows held at once
MaxBackups == 1
\* number of backup rows held at once while downloads run
MaxSnapshots == 2
\* number of requests the statement-level specification handles
MaxRequests == 2
\* number of files one upload carries
MaxFiles == 2
\* bookmark rows and comment rows of a database that is migrated
MaxMigBookmarks == 2
MaxMigComments == 2
MaxMigLog == 2
\* media rows and backup rows of a version 2 database that is migrated, and the urls
\* one backup refers to
MaxOldMedia == 2
MaxOldBackups == 2
MaxUrls == 2
\* largest row id, largest column value and largest number of change-log entries of
\* the statements run on a database with triggers
MaxRowId == 2
MaxValue == 2
MaxLog == 2
\* largest id, sibling index, comment count and time drawn for a direct render call
MaxProbe == 2

----------------------------------------------------------------------------
(* Strings *)

Tok(k) == <<k, 0>>
Num(n) == <<"num", n>>
LF == Tok("\\n")
CR == Tok("\\r")
EmptyStr == << >>

Range(s) == {s[i] : i \in DOMAIN s}

RECURSIVE Concat(_)
\* Array.prototype.join('')
Concat(parts) ==
  IF parts = << >> THEN EmptyStr ELSE Head(parts) \o Concat(Tail(parts))

RECURSIVE Join(_, _)
\* Array.prototype.join(sep)
Join(parts, sep) ==
  IF parts = << >> THEN EmptyStr
  ELSE IF Len(parts) = 1 THEN parts[1]
  ELSE parts[1] \o sep \o Join(Tail(parts), sep)

\* String.prototype.indexOf for a one-character needle: 0-based, -1 when absent
indexOf(s, t) ==
  IF \E i \in DOMAIN s : s[i] = t
  THEN (CHOOSE i \in DOMAIN s : s[i] = t /\ \A j \in 1..(i - 1) : s[j] # t) - 1
  ELSE -1

\* String.prototype.substring(0, n)
substring0(s, n) == SubSeq(s, 1, n)

\* String.prototype.slice(n)
slice(s, n) == SubSeq(s, n + 1, Len(s))

\* html-entities encode(): the markup characters become entities
encodeChar(t) ==
  IF t = Tok("<") THEN Tok("&lt;")
  ELSE IF t = Tok("&") THEN Tok("&amp;")
  ELSE t

encode(s) == [i \in DOMAIN s |-> encodeChar(s[i])]

IsBreak(t) == t \in {LF, CR}

RECURSIVE replaceBreaks(_)
\* title.replace(/[\n\r]+/g, '<return glyph>'): each maximal run of line breaks becomes one glyph
replaceBreaks(s) ==
  IF s = << >> THEN << >>
  ELSE IF IsBreak(Head(s))
       THEN IF Len(s) > 1 /\ IsBreak(s[2])
            THEN replaceBreaks(Tail(s))
            ELSE <<Tok("[return-glyph]")>> \o replaceBreaks(Tail(s))
       ELSE <<Head(s)>> \o replaceBreaks(Tail(s))

encodeTitle(title) == encode(replaceBreaks(title))

\* new URL(url): the parser drops tabs and line breaks, then wants a scheme and a host
urlStripped(url) == SelectSeq(url, LAMBDA t : ~IsBreak(t))

urlParses(url) ==
  LET s == urlStripped(url)
  IN  Len(s) >= 2 /\ s[1] = Tok("http://") /\ s[2] = Tok("x.test")

urlHostname(url) == <<urlStripped(url)[2]>>

\* new Date(t).toISOString()
toISOString(t) == <<<<"time", t>>>>

add1_KeepsX(x, y) == x

add1(x, y) == x + y

----------------------------------------------------------------------------
(* Inputs *)

Users == {1, 2}

Contents == { <<Tok("a")>>, <<Tok("b"), LF, Tok("<")>> }

Titles == { EmptyStr, <<Tok("T")>>, <<Tok("T"), CR, LF, Tok("&")>> }

Urls == { EmptyStr,
          <<Tok("http://"), Tok("x.test")>>,
          <<Tok("junk")>>,
          <<Tok("http://"), Tok("x.test"), Tok("/p"), LF, Tok("q")>> }

----------------------------------------------------------------------------
(* The render engine, src/renderers.ts *)

\* the hyperlink opened by the header when there is a url
headerLink(url, text) ==
  <<Tok("<a href=\"")>> \o url \o <<Tok("\">")>> \o text \o <<Tok("</a>")>>

headerText(url, title) ==
  IF url # EmptyStr /\ title # EmptyStr
  THEN headerLink(url, encodeTitle(title))
       \o (IF urlParses(url)
           THEN <<Tok(" <small class=\"url-snippet\">")>> \o urlHostname(url) \o <<Tok("</small>")>>
           ELSE EmptyStr)
  ELSE IF url # EmptyStr THEN headerLink(url, url)
  ELSE IF title # EmptyStr THEN encodeTitle(title)
  ELSE EmptyStr

\* returns <<pre, post>>
renderBookmarkHeader(partBookmark, idSuffix) ==
  LET id == partBookmark.id
      anchor == <<Tok("bookmark-"), Num(id)>> \o idSuffix
      header == headerText(partBookmark.url, partBookmark.title)
                \o <<Tok(" <a title=\"Link to this bookmark\" href=\"#")>> \o anchor
                \o <<Tok("\" class=\"emojilink\">[link]</a>")>>
                \o <<Tok(" <a title=\"Add a comment\" id=\"add-comment-button-"), Num(id),
                     Tok("\" href=\"#\" class=\"emojilink add-comment-button comment-button\">[letter]</a>")>>
                \o <<Tok(" <a title=\"See raw snapshot\" href=\"/backup/"), Num(id),
                     Tok("\" class=\"emojilink\">[info]</a>")>>
                \o <<Tok(" <a title=\"See just this bookmark (and delete it)\" href=\"/bookmark/"),
                     Num(id), Tok("\" class=\"emojilink\">[boom]</a>")>>
      pre == <<Tok("<div id=\"")>> \o anchor
             \o <<Tok("\" class=\"bookmark\"><span class=\"bookmark-header\">")>>
             \o header \o <<Tok("</span>")>>
      post == <<Tok("</div>")>>
  IN  <<pre, post>>

\* assert(bookmark.id && 'title' in bookmark && 'url' in bookmark && bookmark.numComments)
bookmarkValid(b) == b.id # 0 /\ b.numComments # 0

commentTimestamp_Now(c) == toISOString(clock)

commentTimestamp(c) ==
  toISOString(c.createdTime)
  \o (IF c.createdTime # c.modifiedTime
      THEN <<Tok(" -> ")>> \o toISOString(c.modifiedTime)
      ELSE EmptyStr)

commentCoda(c, b) ==
  LET codas ==
        << <<Tok("<span class=\"coda\"> ")>> >>
        \o (IF c.siblingIdx < b.numComments
            THEN << <<Tok("<a class=\"emojilink coda-prev\" href=\"#"), Tok("bookmark-"), Num(b.id),
                      Tok("-comment-"), Num(add1(c.siblingIdx, 1)), Tok("\">[left]</a>")>> >>
            ELSE << >>)
        \o (IF c.siblingIdx > 1
            THEN << <<Tok("<a class=\"emojilink coda-next\" href=\"#"), Tok("bookmark-"), Num(b.id),
                      Tok("-comment-"), Num(add1(c.siblingIdx, -1)), Tok("\">[right]</a>")>> >>
            ELSE << >>)
        \o (IF b.numComments > 1
            THEN << <<Tok("<span class=\"coda-this\">"), Num(c.siblingIdx), Tok("/"),
                      Num(b.numComments), Tok("</span>")>> >>
            ELSE << >>)
        \o << <<Tok("</span>")>> >>
  IN  Join(codas, <<Tok(" ")>>)

commentInnerRender(id, c, b) ==
  <<Tok("<div id=\"comment-"), Num(id), Tok("\" class=\"comment\"><pre class=\"unrendered\">"), LF>>
  \o encode(c.content) \o <<Tok("</pre>"), LF>>
  \o <<Tok(" <a title=\"Link to this comment\" href=\"#comment-"), Num(id),
       Tok("\" class=\"emojilink\">[link]</a>"),
       Tok(" <a title=\"Edit comment\" id=\"edit-comment-button-"), Num(id),
       Tok("\" href=\"#\" class=\"emojilink edit-comment-button comment-button\">[letter]</a>"),
       Tok(" ")>>
  \o commentTimestamp(c) \o <<Tok(" ")>> \o commentCoda(c, b)
  \o <<LF, Tok("</div>")>>

commentFullRender(id, c, b) ==
  LET suffix == <<Tok("-comment-"), Num(c.siblingIdx)>>
      prepost == renderBookmarkHeader(b, suffix)
  IN  Concat(<<prepost[1], commentInnerRender(id, c, b), prepost[2]>>)

\* the comment table after rerenderComment(db, {id, ...c}, b) at time now;
\* the call returns commentInnerRender(id, c, b)
rerenderComment(cm, id, c, b, now) ==
  [cm EXCEPT ![id].innerRender = commentInnerRender(id, c, b),
             ![id].fullRender = commentFullRender(id, c, b),
             ![id].renderedTime = now]

RECURSIVE sortDesc(_, _)
\* the ids of a table's rows, largest key first (order by ... desc); rows written by
\* different requests never share a time, an equal key falls back on the larger id
sortDesc(ids, key) ==
  IF ids = {} THEN << >>
  ELSE LET top == CHOOSE i \in ids :
                    \A j \in ids : key[j] < key[i] \/ (key[j] = key[i] /\ j <= i)
       IN  <<top>> \o sortDesc(ids \ {top}, key)

\* select innerRender from comment where bookmarkId=$id order by createdTime desc
commentsNewestFirst(cm, id) ==
  sortDesc({c \in DOMAIN cm : cm[c].bookmarkId = id}, [c \in DOMAIN cm |-> cm[c].createdTime])

\* rows.map(o => o.innerRender) of the query rerenderJustBookmark runs without
\* preexistingRenders
persistedRenders(cm, id) ==
  LET rows == commentsNewestFirst(cm, id)
  IN  [i \in DOMAIN rows |-> cm[rows[i]].innerRender]

\* the render rerenderJustBookmark computes from a list of comment renders
justBookmarkRender(partBookmark, renders) ==
  LET prepost == renderBookmarkHeader(partBookmark, EmptyStr)
      commentsRender == Join(renders, <<LF>>)
  IN  Join(<<prepost[1], commentsRender, prepost[2]>>, <<LF>>)

\* the bookmark table after rerenderJustBookmark(db, partBookmark, renders)
rerenderJustBookmark(bm, partBookmark, renders, now) ==
  [bm EXCEPT ![partBookmark.id].render = justBookmarkRender(partBookmark, renders),
             ![partBookmark.id].renderedTime = now]

\* rerenderJustBookmark(db, id): select url, title, id from bookmark where id=$id
partBookmarkById(bm, id) == [id |-> id, url |-> bm[id].url, title |-> bm[id].title]

spliceAfterLastBreak(bookmarkRender, commentRender) ==
  LET n == Len(bookmarkRender) - 1
  IN  substring0(bookmarkRender, n) \o commentRender \o <<LF>> \o slice(bookmarkRender, n)

\* newRender of fastUpdateBookmarkWithNewComment: the fragment goes after the first line
spliceAfterFirstLine(bookmarkRender, commentRender) ==
  LET newline == indexOf(bookmarkRender, LF)
  IN  substring0(bookmarkRender, newline + 1) \o commentRender \o <<LF>>
      \o slice(bookmarkRender, newline + 1)

\* if (newline < 0) { throw new Error('no newline in render ' + bookmarkId); }
fastUpdateThrows(bookmarkRender) == indexOf(bookmarkRender, LF) < 0

\* the bookmark table after fastUpdateBookmarkWithNewComment(...) when it does not throw
fastUpdateBookmarkWithNewComment(bm, bookmarkRender, bookmarkId, commentRender, numComments, now) ==
  [bm EXCEPT ![bookmarkId].render = spliceAfterFirstLine(bookmarkRender, commentRender),
             ![bookmarkId].renderedTime = now,
             ![bookmarkId].modifiedTime = now,
             ![bookmarkId].numComments = add1(numComments, 1)]

----------------------------------------------------------------------------
(* The v4 server, src/unnamed/part_007 *)

Max(S) == CHOOSE x \in S : \A y \in S : y <= x

\* comment.id and backup.id are INTEGER PRIMARY KEY: one more than the largest rowid
nextRowid(table) == IF DOMAIN table = {} THEN 1 ELSE Max(DOMAIN table) + 1

Extend(table, id, row) == [i \in DOMAIN table \cup {id} |-> IF i = id THEN row ELSE table[i]]

Restrict(table, ids) == [i \in ids |-> table[i]]

prelude == <<Tok("prelude.html + topstuff.html")>>

\* a check that asks only whether the bookmark exists
userBookmarkAuth_AnyUser(bm, userId, bookmarkId) == bookmarkId \in DOMAIN bm

userBookmarkAuth(bm, userId, bookmarkId) ==
  \E id \in DOMAIN bm : id = bookmarkId /\ bm[id].userId = userId

\* select render from bookmark where userId=$userId order by modifiedTime desc
allBookmarksFeed(bm, userId) ==
  LET rows == sortDesc({b \in DOMAIN bm : bm[b].userId = userId},
                       [b \in DOMAIN bm |-> bm[b].modifiedTime])
  IN  prelude \o Join([i \in DOMAIN rows |-> bm[rows[i]].render], <<LF>>)

\* comment join bookmark where bookmark.userId=... order by comment.createdTime desc
commentsTimeSorted(bm, cm, userId) ==
  sortDesc({c \in DOMAIN cm : cm[c].bookmarkId \in DOMAIN bm /\ bm[cm[c].bookmarkId].userId = userId},
           [c \in DOMAIN cm |-> cm[c].createdTime])

needle == Tok("</div>")

\* if (!x.innerRender.endsWith(needle)) { throw new Error('3') }
allCommentsFeedThrows(bm, cm, userId) ==
  \E c \in Range(commentsTimeSorted(bm, cm, userId)) :
     cm[c].innerRender = EmptyStr \/ cm[c].innerRender[Len(cm[c].innerRender)] # needle

\* the feed of comments of the bookmarks of userId, built as cacheAllComments builds it
allCommentsFeed(bm, cm, userId) ==
  LET sorted == commentsTimeSorted(bm, cm, userId)
      bookmarkIdAt(i) == IF i \in DOMAIN sorted THEN cm[sorted[i]].bookmarkId ELSE 0
      \* groupBy2: the comments of one bookmark, in the order of sorted
      group(bookmarkId) == SelectSeq(sorted, LAMBDA c : cm[c].bookmarkId = bookmarkId)
      renderAt(xid) ==
        LET x == sorted[xid]
            bookmarkId == cm[x].bookmarkId
            sameBookmarkPrev == bookmarkId = bookmarkIdAt(xid - 1)
            sameBookmarkNext == bookmarkId = bookmarkIdAt(xid + 1)
            comments == group(bookmarkId)
            \* commentIdToIdx, 0-based
            idx == (CHOOSE i \in DOMAIN comments : comments[i] = x) - 1
            total == Len(comments)
            thisNum == total - idx
            prevId == IF idx >= 1 THEN comments[idx] ELSE 0
            nextId == IF idx + 2 <= total THEN comments[idx + 2] ELSE 0
            prev == IF prevId # 0 /\ ~sameBookmarkPrev
                    THEN <<Tok("<a class=\"emojilink\" href=\"#comment-"), Num(prevId), Tok("\">[left]</a>")>>
                    ELSE EmptyStr
            next == IF nextId # 0 /\ ~sameBookmarkNext
                    THEN <<Tok("<a class=\"emojilink\" href=\"#comment-"), Num(nextId), Tok("\">[right]</a>")>>
                    ELSE EmptyStr
            thisVsTotal == IF prev # EmptyStr \/ next # EmptyStr
                           THEN <<Tok("("), Num(thisNum), Tok("/"), Num(total), Tok(")")>>
                           ELSE EmptyStr
            coda == Join(<<EmptyStr, prev, next, thisVsTotal>>, <<Tok(" ")>>) \o <<LF>>
            innerRender == cm[x].innerRender
            commentRender == substring0(innerRender, Len(innerRender) - 1) \o coda \o <<needle>>
            suffix == IF total > 1 THEN <<Tok("-"), Num(thisNum), Tok("-of-"), Num(total)>> ELSE EmptyStr
            header == renderBookmarkHeader([id |-> bookmarkId, url |-> bm[bookmarkId].url,
                                            title |-> bm[bookmarkId].title], suffix)
            pre == IF sameBookmarkPrev THEN EmptyStr ELSE header[1]
            post == IF sameBookmarkNext THEN EmptyStr ELSE header[2]
        IN  Concat(<<pre, commentRender, post>>)
  IN  prelude \o Join([xid \in DOMAIN sorted |-> renderAt(xid)], <<LF>>)

Put(map, key, value) == [k \in DOMAIN map \cup {key} |-> IF k = key THEN value ELSE map[k]]

\* ALL_COMMENTS after cacheAllComments(db, userId): the query reads where bookmark.userId=1
cacheAllComments(bm, cm, allComments, userId) ==
  IF allCommentsFeedThrows(bm, cm, 1) THEN allComments
  ELSE Put(allComments, userId, allCommentsFeed(bm, cm, 1))

\* ALL_BOOKMARKS after cacheAllBookmarks(db, userId)
cacheAllBookmarks(bm, allBookmarks, userId) == Put(allBookmarks, userId, allBookmarksFeed(bm, userId))

\* the comment table after addCommentToBookmark(db, comment, bookmarkId, existingComments);
\* the new row has id nextRowid(cm) and the call returns its innerRender.  The row is
\* rendered in the context of the bookmark it was inserted into, which then counts
\* add1(existingComments) comments.
addCommentToBookmark(bm, cm, content, bookmarkId, existingComments, now) ==
  LET id == nextRowid(cm)
      commentRow == [bookmarkId |-> bookmarkId, content |-> content, createdTime |-> now,
                     modifiedTime |-> now, innerRender |-> EmptyStr, fullRender |-> EmptyStr,
                     siblingIdx |-> add1(existingComments, 1), renderedTime |-> -1]
      ctx == [id |-> bookmarkId, url |-> bm[bookmarkId].url, title |-> bm[bookmarkId].title,
              numComments |-> add1(existingComments, 1)]
  IN  rerenderComment(Extend(cm, id, commentRow), id, commentRow, ctx, now)

\* <<bookmark table, comment table>> after createNewBookmark(db, url, title, comment, userId)
\* inserts row id
createNewBookmark(bm, cm, id, url, title, content, userId, now) ==
  LET bookmarkRow == [userId |-> userId, url |-> url, title |-> title, createdTime |-> now,
                      modifiedTime |-> now, numComments |-> 1, render |-> EmptyStr,
                      renderedTime |-> now]
      bm1 == Extend(bm, id, bookmarkRow)
      cm1 == addCommentToBookmark(bm1, cm, content, id, 0, now)
      commentRender == cm1[nextRowid(cm)].innerRender
      bm2 == rerenderJustBookmark(bm1, [id |-> id, url |-> url, title |-> title],
                                  <<commentRender>>, now)
  IN  <<bm2, cm1>>

\* comment = '> ' + comment.replace(/\n/g, '\n> ')
quoted(content) ==
  <<Tok("> ")>> \o Concat([i \in DOMAIN content |->
                             IF content[i] = LF THEN <<LF, Tok("> ")>> ELSE <<content[i]>>])

Op(op, userId, code, bookmarkId, commentId, numCommentsRead) ==
  [op |-> op, userId |-> userId, code |-> code, bookmarkId |-> bookmarkId,
   commentId |-> commentId, numCommentsRead |-> numCommentsRead]

NoOp == Op("none", 0, 0, 0, 0, 0)

\* a request answered with an error status before anything was written
Rejected(code) == Op("rejected", 0, code, 0, 0, 0)

\* no migration is running
NotRunning == [pc |-> "none"]

Init ==
  /\ bookmark = << >>
  /\ comment = << >>
  /\ backup = << >>
  /\ media = {}
  /\ blob = {}
  /\ disk = << >>
  /\ migration = NotRunning
  /\ sqlite_sequence = [bookmark |-> 0, comment |-> 0]
  /\ ALL_BOOKMARKS = << >>
  /\ ALL_COMMENTS = << >>
  /\ clock = 1
  /\ lastOp = NoOp
  /\ req = << >>
  /\ probe = << >>

----------------------------------------------------------------------------
(* POST /bookmark: bodyToBookmark *)

\* the backup table after a snapshot of bookmark id is stored
insertBackup(bk, id, html, now) ==
  Extend(bk, nextRowid(bk), [bookmarkId |-> id, content |-> html, original |-> html,
                             createdTime |-> now])

\* a lookup that leaves the user out
bookmarkOf_AnyUser(bm, url, title, userId) ==
  {id \in DOMAIN bm : bm[id].url = url /\ bm[id].title = title}

\* select ... from bookmark where url=$url and title=$title and userId=$userId
bookmarkOf(bm, url, title, userId) ==
  {id \in DOMAIN bm : bm[id].url = url /\ bm[id].title = title /\ bm[id].userId = userId}

\* AddBookmarkOrCommentPayload without a url and without a title
ClipBadRequest(userId) ==
  /\ lastOp' = Rejected(400)
  /\ UNCHANGED <<bookmark, comment, backup, media, sqlite_sequence, ALL_BOOKMARKS, ALL_COMMENTS,
                 clock, req, probe, blob, disk, migration>>

\* AddBookmarkOrCommentPayload naming a bookmark the user has: a comment is added
ClipExisting(userId, url, title, content0, quote, html) ==
  /\ clock < MaxClock
  /\ title # EmptyStr \/ url # EmptyStr
  /\ Cardinality(DOMAIN comment) < MaxComments
  /\ html # EmptyStr => Cardinality(DOMAIN backup) < MaxBackups
  /\ bookmarkOf(bookmark, url, title, userId) # {}
  /\ LET content == IF quote /\ content0 # EmptyStr THEN quoted(content0) ELSE content0
         id == CHOOSE b \in bookmarkOf(bookmark, url, title, userId) : TRUE
         row == bookmark[id]
         cm1 == addCommentToBookmark(bookmark, comment, content, id, row.numComments, clock)
         commentRender == cm1[nextRowid(comment)].innerRender
     IN  /\ comment' = cm1
         /\ IF fastUpdateThrows(row.render)
            THEN /\ lastOp' = Op("addComment", userId, 500, id, nextRowid(comment), row.numComments)
                 /\ UNCHANGED <<bookmark, backup, ALL_BOOKMARKS, ALL_COMMENTS>>
            ELSE LET bm1 == fastUpdateBookmarkWithNewComment(bookmark, row.render, id, commentRender,
                                                            row.numComments, clock)
                 IN  /\ bookmark' = bm1
                     /\ ALL_BOOKMARKS' = cacheAllBookmarks(bm1, ALL_BOOKMARKS, userId)
                     /\ ALL_COMMENTS' = cacheAllComments(bm1, cm1, ALL_COMMENTS, userId)
                     /\ backup' = IF html # EmptyStr THEN insertBackup(backup, id, html, clock)
                                  ELSE backup
                     /\ lastOp' = Op("addComment", userId, 200, id, nextRowid(comment),
                                     row.numComments)
  /\ clock' = clock + 1
  /\ UNCHANGED <<media, sqlite_sequence, req, probe, blob, disk, migration>>

\* AddBookmarkOrCommentPayload naming no bookmark of the user: a bookmark is created
ClipNew(userId, url, title, content0, quote, html) ==
  /\ clock < MaxClock
  /\ title # EmptyStr \/ url # EmptyStr
  /\ Cardinality(DOMAIN comment) < MaxComments
  /\ sqlite_sequence.bookmark < MaxBookmarks
  /\ html # EmptyStr => Cardinality(DOMAIN backup) < MaxBackups
  /\ bookmarkOf(bookmark, url, title, userId) = {}
  /\ LET content == IF quote /\ content0 # EmptyStr THEN quoted(content0) ELSE content0
         id == sqlite_sequence.bookmark + 1
         created == createNewBookmark(bookmark, comment, id, url, title, content, userId, clock)
     IN  /\ bookmark' = created[1]
         /\ comment' = created[2]
         /\ sqlite_sequence' = [sqlite_sequence EXCEPT !.bookmark = id]
         /\ ALL_BOOKMARKS' = cacheAllBookmarks(created[1], ALL_BOOKMARKS, userId)
         /\ ALL_COMMENTS' = cacheAllComments(created[1], created[2], ALL_COMMENTS, userId)
         /\ backup' = IF html # EmptyStr THEN insertBackup(backup, id, html, clock) ELSE backup
         /\ lastOp' = Op("createBookmark", userId, 200, id, nextRowid(comment), 0)
  /\ clock' = clock + 1
  /\ UNCHANGED <<media, req, probe, blob, disk, migration>>

\* AddCommentOnlyPayload {id, comment}
AddCommentOnly(userId, id, content) ==
  /\ clock < MaxClock
  /\ Cardinality(DOMAIN comment) < MaxComments
  /\ IF userBookmarkAuth(bookmark, userId, id)
     THEN LET row == bookmark[id]
              cm1 == addCommentToBookmark(bookmark, comment, content, id, row.numComments, clock)
              commentRender == cm1[nextRowid(comment)].innerRender
          IN  /\ comment' = cm1
              /\ IF fastUpdateThrows(row.render)
                 THEN /\ lastOp' = Op("addComment", userId, 500, id, nextRowid(comment),
                                      row.numComments)
                      /\ UNCHANGED <<bookmark, ALL_BOOKMARKS, ALL_COMMENTS>>
                 ELSE LET bm1 == fastUpdateBookmarkWithNewComment(bookmark, row.render, id,
                                                                 commentRender, row.numComments, clock)
                      IN  /\ bookmark' = bm1
                          /\ ALL_BOOKMARKS' = cacheAllBookmarks(bm1, ALL_BOOKMARKS, userId)
                          /\ ALL_COMMENTS' = cacheAllComments(bm1, cm1, ALL_COMMENTS, userId)
                          /\ lastOp' = Op("addComment", userId, 200, id, nextRowid(comment),
                                          row.numComments)
              /\ clock' = clock + 1
     ELSE /\ lastOp' = Rejected(401)
          /\ UNCHANGED <<bookmark, comment, ALL_BOOKMARKS, ALL_COMMENTS, clock>>
  /\ UNCHANGED <<backup, media, sqlite_sequence, req, probe, blob, disk, migration>>

\* AddHtmlPayload {id, html}
AddHtml(userId, id, html) ==
  /\ clock < MaxClock
  /\ Cardinality(DOMAIN backup) < MaxBackups
  /\ IF userBookmarkAuth(bookmark, userId, id)
     THEN /\ backup' = insertBackup(backup, id, html, clock)
          /\ lastOp' = Op("addHtml", userId, 200, id, 0, 0)
          /\ clock' = clock + 1
     ELSE /\ lastOp' = Rejected(401)
          /\ UNCHANGED <<backup, clock>>
  /\ UNCHANGED <<bookmark, comment, media, sqlite_sequence, ALL_BOOKMARKS, ALL_COMMENTS, req, probe, blob, disk, migration>>

----------------------------------------------------------------------------
(* PUT /comment/:commentId, GET /merge/:fromId/:toId, DELETE /bookmark/:id, GET / and /c *)

\* the context rerenderComment works in when commentPut calls it for a stored comment
coreBookmarkById(bm, id) ==
  [id |-> id, url |-> bm[id].url, title |-> bm[id].title, numComments |-> bm[id].numComments]

commentPut(userId, commentId, content) ==
  /\ clock < MaxClock
  /\ IF commentId \in DOMAIN comment /\ comment[commentId].bookmarkId >= 0
     THEN LET bookmarkId == comment[commentId].bookmarkId
          IN  IF userBookmarkAuth(bookmark, userId, bookmarkId)
              THEN LET cm1 == [comment EXCEPT ![commentId].content = content,
                                              ![commentId].modifiedTime = clock]
                       cm2 == rerenderComment(cm1, commentId, cm1[commentId],
                                              coreBookmarkById(bookmark, bookmarkId), clock)
                       bm1 == rerenderJustBookmark(bookmark, partBookmarkById(bookmark, bookmarkId),
                                                   persistedRenders(cm2, bookmarkId), clock)
                   IN  /\ comment' = cm2
                       /\ bookmark' = bm1
                       /\ ALL_BOOKMARKS' = cacheAllBookmarks(bm1, ALL_BOOKMARKS, userId)
                       /\ ALL_COMMENTS' = cacheAllComments(bm1, cm2, ALL_COMMENTS, userId)
                       /\ lastOp' = Op("commentPut", userId, 200, bookmarkId, commentId, 0)
                       /\ clock' = clock + 1
              ELSE /\ lastOp' = Rejected(400)
                   /\ UNCHANGED <<bookmark, comment, ALL_BOOKMARKS, ALL_COMMENTS, clock>>
     ELSE /\ lastOp' = Rejected(401)
          /\ UNCHANGED <<bookmark, comment, ALL_BOOKMARKS, ALL_COMMENTS, clock>>
  /\ UNCHANGED <<backup, media, sqlite_sequence, req, probe, blob, disk, migration>>

\* a delete that matches no row
withoutBookmark_KeepsAll(table, id) == table

\* the rows of a table that do not belong to bookmark id
withoutBookmark(table, id) == Restrict(table, {i \in DOMAIN table : table[i].bookmarkId # id})

merge(userId, fromId, toId) ==
  /\ clock < MaxClock
  /\ IF userBookmarkAuth(bookmark, userId, toId) /\ userBookmarkAuth(bookmark, userId, fromId)
     THEN LET cm1 == [c \in DOMAIN comment |->
                        IF comment[c].bookmarkId = fromId
                        THEN [comment[c] EXCEPT !.bookmarkId = toId] ELSE comment[c]]
              bm1 == Restrict(bookmark, DOMAIN bookmark \ {fromId})
              times == {cm1[c].createdTime : c \in {d \in DOMAIN cm1 : cm1[d].bookmarkId = toId}}
              \* update bookmark set modifiedTime=$createdTime where id=$toId
              bm2 == IF toId \in DOMAIN bm1 /\ times # {}
                     THEN [bm1 EXCEPT ![toId].modifiedTime = Max(times)] ELSE bm1
          IN  /\ comment' = cm1
              /\ backup' = withoutBookmark(backup, fromId)
              /\ media' = {m \in media : m.bookmarkId # fromId}
              /\ IF toId \in DOMAIN bm2
                 THEN LET bm3 == rerenderJustBookmark(bm2, partBookmarkById(bm2, toId),
                                                      persistedRenders(cm1, toId), clock)
                      IN  /\ bookmark' = bm3
                          /\ ALL_BOOKMARKS' = cacheAllBookmarks(bm3, ALL_BOOKMARKS, userId)
                          /\ ALL_COMMENTS' = cacheAllComments(bm3, cm1, ALL_COMMENTS, userId)
                          /\ lastOp' = Op("merge", userId, 200, toId, 0, 0)
                 ELSE \* rerenderJustBookmark throws 'unknown bookmark'
                      /\ bookmark' = bm2
                      /\ lastOp' = Op("merge", userId, 500, toId, 0, 0)
                      /\ UNCHANGED <<ALL_BOOKMARKS, ALL_COMMENTS>>
              /\ clock' = clock + 1
     ELSE /\ lastOp' = Rejected(401)
          /\ UNCHANGED <<bookmark, comment, backup, media, ALL_BOOKMARKS, ALL_COMMENTS, clock>>
  /\ UNCHANGED <<sqlite_sequence, req, probe, blob, disk, migration>>

deleteBookmark(userId, bookmarkId) ==
  /\ clock < MaxClock
  /\ IF userBookmarkAuth(bookmark, userId, bookmarkId)
     THEN LET bm1 == Restrict(bookmark, DOMAIN bookmark \ {bookmarkId})
              cm1 == withoutBookmark(comment, bookmarkId)
          IN  /\ backup' = withoutBookmark(backup, bookmarkId)
              /\ media' = {m \in media : m.bookmarkId # bookmarkId}
              /\ comment' = cm1
              /\ bookmark' = bm1
              /\ ALL_BOOKMARKS' = cacheAllBookmarks(bm1, ALL_BOOKMARKS, userId)
              /\ ALL_COMMENTS' = cacheAllComments(bm1, cm1, ALL_COMMENTS, userId)
              /\ lastOp' = Op("delete", userId, 200, bookmarkId, 0, 0)
              /\ clock' = clock + 1
     ELSE /\ lastOp' = Rejected(401)
          /\ UNCHANGED <<bookmark, comment, backup, media, ALL_BOOKMARKS, ALL_COMMENTS, clock>>
  /\ UNCHANGED <<sqlite_sequence, req, probe, blob, disk, migration>>

\* hash.update(content); hash.digest('base64url'): one digest for each content
sha256hash(content) == <<Tok("sha256:")>> \o content

\* a media table without its unique constraint
uniqueConstraintError_Never(md, row) == FALSE

\* e.code === 'SQLITE_CONSTRAINT_UNIQUE' for insert into media: unique (sha256, path, bookmarkId)
uniqueConstraintError(md, row) ==
  \E m \in md : m.sha256 = row.sha256 /\ m.path = row.path /\ m.bookmarkId = row.bookmarkId

\* mediaInsert.run(media) inside try/catch: a unique-constraint error is swallowed
mediaInsert(md, row) == IF uniqueConstraintError(md, row) THEN md ELSE md \cup {row}

\* a count that never finds a row
blobCounter_Zero(bl, sha256) == 0

\* select count(*) as count from blob where sha256=$sha256
blobCounter(bl, sha256) == Cardinality({b \in bl : b.sha256 = sha256})

\* blobInsert.run(...) if (!blobCount.count)
blobInsert(bl, file, sha256, now) ==
  IF blobCounter(bl, sha256) = 0
  THEN bl \cup {[content |-> file.buffer, mime |-> file.mimetype, createdTime |-> now,
                 numBytes |-> Len(file.buffer), sha256 |-> sha256]}
  ELSE bl

\* <<media, blob, disk, migration>> after the loop for (const file of files)
RECURSIVE uploadFiles(_, _, _, _, _)
uploadFiles(md, bl, files, bookmarkId, now) ==
  IF files = << >> THEN <<md, bl>>
  ELSE LET file == Head(files)
           sha256 == sha256hash(file.buffer)
           row == [path |-> file.originalname, bookmarkId |-> bookmarkId, sha256 |-> sha256,
                   createdTime |-> now]
       IN  uploadFiles(mediaInsert(md, row), blobInsert(bl, file, sha256, now), Tail(files),
                       bookmarkId, now)

\* the reply to an upload, recorded with the request: its user, its bookmark id and
\* the files it stored
Upload(userId, code, bookmarkId, files) ==
  [op |-> "mediaPost", userId |-> userId, code |-> code, bookmarkId |-> bookmarkId,
   commentId |-> 0, numCommentsRead |-> 0, files |-> files]

\* POST /media/:bookmarkId with the multipart field files (hasFiles: req.files is an array)
mediaPost(userId, bookmarkId, hasFiles, files) ==
  /\ clock < MaxClock
  /\ IF ~userBookmarkAuth(bookmark, userId, bookmarkId)
     THEN /\ lastOp' = Upload(userId, 401, bookmarkId, << >>)
          /\ UNCHANGED <<media, blob, clock>>
     ELSE IF hasFiles
     THEN LET uploaded == uploadFiles(media, blob, files, bookmarkId, clock)
          IN  /\ media' = uploaded[1]
              /\ blob' = uploaded[2]
              /\ lastOp' = Upload(userId, 200, bookmarkId, files)
              /\ clock' = clock + 1
     ELSE /\ lastOp' = Upload(userId, 400, bookmarkId, << >>)
          /\ UNCHANGED <<media, blob, clock>>
  /\ UNCHANGED <<bookmark, comment, backup, sqlite_sequence, ALL_BOOKMARKS, ALL_COMMENTS, req, probe,
                 disk, migration>>

\* GET /: if (!ALL_BOOKMARKS.has(user.id)) { cacheAllBookmarks(db, user.id); }
getAllBookmarks(userId) ==
  /\ IF userId \in DOMAIN ALL_BOOKMARKS
     THEN UNCHANGED <<ALL_BOOKMARKS, ALL_COMMENTS>>
     ELSE /\ ALL_BOOKMARKS' = cacheAllBookmarks(bookmark, ALL_BOOKMARKS, userId)
          /\ ALL_COMMENTS' = cacheAllComments(bookmark, comment, ALL_COMMENTS, userId)
  /\ UNCHANGED <<bookmark, comment, backup, media, sqlite_sequence, clock, lastOp, req, probe, blob, disk, migration>>

\* GET /c: if (!ALL_COMMENTS.has(user.id)) { cacheAllComments(db, user.id); }
getAllComments(userId) ==
  /\ ALL_COMMENTS' = IF userId \in DOMAIN ALL_COMMENTS THEN ALL_COMMENTS
                     ELSE cacheAllComments(bookmark, comment, ALL_COMMENTS, userId)
  /\ UNCHANGED <<bookmark, comment, backup, media, sqlite_sequence, ALL_BOOKMARKS, clock, lastOp, req,
                 probe, blob, disk, migration>>

\* what a request may carry
ClipRequests ==
  { [url |-> <<Tok("http://"), Tok("x.test")>>, title |-> <<Tok("T")>>,
     comment |-> <<Tok("a")>>, quote |-> FALSE, html |-> EmptyStr],
    [url |-> <<Tok("http://"), Tok("x.test"), Tok("/p"), LF, Tok("q")>>,
     title |-> <<Tok("T"), CR, LF, Tok("&")>>,
     comment |-> <<Tok("b"), LF, Tok("<")>>, quote |-> TRUE, html |-> <<Tok("<html>")>>],
    [url |-> EmptyStr, title |-> <<Tok("T")>>,
     comment |-> EmptyStr, quote |-> TRUE, html |-> EmptyStr] }
BookmarkIds == 1..MaxBookmarks
CommentIds == 1..MaxComments
\* the files an upload may carry: one name, two contents
Files ==
  { [originalname |-> <<Tok("a.png")>>, buffer |-> <<Tok("x")>>, mimetype |-> <<Tok("image/png")>>],
    [originalname |-> <<Tok("a.png")>>, buffer |-> <<Tok("y")>>, mimetype |-> <<Tok("image/png")>>] }
Uploads == UNION {[1..n -> Files] : n \in 0..MaxFiles}

Next ==
  \/ \E userId \in Users : ClipBadRequest(userId)
  \/ \E userId \in Users, r \in ClipRequests :
       ClipExisting(userId, r.url, r.title, r.comment, r.quote, r.html)
  \/ \E userId \in Users, r \in ClipRequests :
       ClipNew(userId, r.url, r.title, r.comment, r.quote, r.html)
  \/ \E userId \in Users, id \in BookmarkIds : AddCommentOnly(userId, id, <<Tok("c"), LF>>)
  \/ \E userId \in Users, id \in BookmarkIds : AddHtml(userId, id, <<Tok("<html>")>>)
  \/ \E userId \in Users, commentId \in CommentIds, content \in Contents :
       commentPut(userId, commentId, content)
  \/ \E userId \in Users, fromId \in BookmarkIds, toId \in BookmarkIds :
       merge(userId, fromId, toId)
  \/ \E userId \in Users, id \in BookmarkIds : deleteBookmark(userId, id)
  \/ \E userId \in Users, id \in BookmarkIds, files \in Uploads :
       mediaPost(userId, id, TRUE, files)
  \/ \E userId \in Users, id \in BookmarkIds : mediaPost(userId, id, FALSE, << >>)
  \/ \E userId \in Users : getAllBookmarks(userId)
  \/ \E userId \in Users : getAllComments(userId)

Spec == Init /\ [][Next]_vars

----------------------------------------------------------------------------
(* POST /bookmark statement by statement.  The handler issues its statements one  *)
(* after the other without a transaction, so each is committed on its own: a      *)
(* request may stop between two of them, and the statements of another connection *)
(* to the same database file may come in between.                                 *)

Requests == 1..MaxRequests

Idle == [pc |-> "idle", kind |-> "none", userId |-> 0, bookmarkId |-> 0, commentId |-> 0,
         content |-> EmptyStr, url |-> EmptyStr, title |-> EmptyStr,
         render |-> EmptyStr, numComments |-> 0, code |-> 0]

InFlight == {"insertBookmark", "addFirstComment", "renderBookmark", "addComment", "fastUpdate"}

InitStmt ==
  /\ \E r \in ClipRequests :
       LET created == createNewBookmark(<< >>, << >>, 1, r.url, r.title, r.comment, 1, 1)
       IN  /\ bookmark = created[1]
           /\ comment = created[2]
           /\ ALL_BOOKMARKS = cacheAllBookmarks(created[1], << >>, 1)
           /\ ALL_COMMENTS = cacheAllComments(created[1], created[2], << >>, 1)
  /\ backup = << >>
  /\ media = {}
  /\ blob = {}
  /\ disk = << >>
  /\ migration = NotRunning
  /\ sqlite_sequence = [bookmark |-> 1, comment |-> 0]
  /\ clock = 2
  /\ lastOp = NoOp
  /\ req = [p \in Requests |-> Idle]
  /\ probe = << >>

\* AddCommentOnlyPayload: select id, render, modifiedTime, numComments from bookmark
\* where id=$id and userId=$userId
StmtSelectBookmark(p, userId, id, content) ==
  /\ req[p].pc = "idle"
  /\ req' = [req EXCEPT ![p] =
               IF userBookmarkAuth(bookmark, userId, id)
               THEN [Idle EXCEPT !.pc = "addComment", !.kind = "add", !.userId = userId,
                                 !.bookmarkId = id, !.content = content,
                                 !.render = bookmark[id].render,
                                 !.numComments = bookmark[id].numComments]
               ELSE [Idle EXCEPT !.pc = "done", !.kind = "add", !.code = 401]]
  /\ UNCHANGED <<bookmark, comment, backup, media, sqlite_sequence, ALL_BOOKMARKS, ALL_COMMENTS,
                 clock, lastOp, probe, blob, disk, migration>>

\* addCommentToBookmark(db, comment, id, bookmark.numComments)
StmtAddComment(p) ==
  /\ req[p].pc = "addComment"
  /\ req[p].bookmarkId \in DOMAIN bookmark
  /\ comment' = addCommentToBookmark(bookmark, comment, req[p].content, req[p].bookmarkId,
                                     req[p].numComments, clock)
  /\ req' = [req EXCEPT ![p].pc = "fastUpdate", ![p].commentId = nextRowid(comment)]
  /\ clock' = clock + 1
  /\ UNCHANGED <<bookmark, backup, media, sqlite_sequence, ALL_BOOKMARKS, ALL_COMMENTS, lastOp, probe, blob, disk, migration>>

\* fastUpdateBookmarkWithNewComment(db, bookmark.render, id, commentRender, bookmark.numComments)
\* and cacheAllBookmarks(db, userId)
StmtFastUpdate(p) ==
  /\ req[p].pc = "fastUpdate"
  /\ IF fastUpdateThrows(req[p].render)
     THEN /\ req' = [req EXCEPT ![p].pc = "failed", ![p].code = 500]
          /\ UNCHANGED <<bookmark, ALL_BOOKMARKS, ALL_COMMENTS>>
     ELSE LET bm1 == fastUpdateBookmarkWithNewComment(
                       bookmark, req[p].render, req[p].bookmarkId,
                       comment[req[p].commentId].innerRender, req[p].numComments, clock)
          IN  /\ bookmark' = bm1
              /\ ALL_BOOKMARKS' = cacheAllBookmarks(bm1, ALL_BOOKMARKS, req[p].userId)
              /\ ALL_COMMENTS' = cacheAllComments(bm1, comment, ALL_COMMENTS, req[p].userId)
              /\ req' = [req EXCEPT ![p].pc = "done", ![p].code = 200]
  /\ clock' = clock + 1
  /\ UNCHANGED <<comment, backup, media, sqlite_sequence, lastOp, probe, blob, disk, migration>>

\* AddBookmarkOrCommentPayload: the select finds no bookmark with this url and title
StmtSelectNone(p, userId, r) ==
  /\ req[p].pc = "idle"
  /\ bookmarkOf(bookmark, r.url, r.title, userId) = {}
  /\ req' = [req EXCEPT ![p] = [Idle EXCEPT !.pc = "insertBookmark", !.kind = "create",
                                            !.userId = userId, !.url = r.url, !.title = r.title,
                                            !.content = r.comment]]
  /\ UNCHANGED <<bookmark, comment, backup, media, sqlite_sequence, ALL_BOOKMARKS, ALL_COMMENTS,
                 clock, lastOp, probe, blob, disk, migration>>

\* createNewBookmark: insert into bookmark (...), with render '' and numComments 1;
\* the insert fails on unique (url, title, userId)
StmtInsertBookmark(p) ==
  /\ req[p].pc = "insertBookmark"
  /\ IF bookmarkOf(bookmark, req[p].url, req[p].title, req[p].userId) # {}
     THEN /\ req' = [req EXCEPT ![p].pc = "failed", ![p].code = 500]
          /\ UNCHANGED <<bookmark, sqlite_sequence>>
     ELSE /\ bookmark' = Extend(bookmark, sqlite_sequence.bookmark + 1,
                                [userId |-> req[p].userId, url |-> req[p].url,
                                 title |-> req[p].title, createdTime |-> clock,
                                 modifiedTime |-> clock, numComments |-> 1,
                                 render |-> EmptyStr, renderedTime |-> clock])
          /\ sqlite_sequence' = [sqlite_sequence EXCEPT !.bookmark = sqlite_sequence.bookmark + 1]
          /\ req' = [req EXCEPT ![p].pc = "addFirstComment", ![p].bookmarkId = sqlite_sequence.bookmark + 1]
  /\ clock' = clock + 1
  /\ UNCHANGED <<comment, backup, media, ALL_BOOKMARKS, ALL_COMMENTS, lastOp, probe, blob, disk, migration>>

\* createNewBookmark: addCommentToBookmark(db, comment, id, 0)
StmtAddFirstComment(p) ==
  /\ req[p].pc = "addFirstComment"
  /\ comment' = addCommentToBookmark(bookmark, comment, req[p].content, req[p].bookmarkId, 0, clock)
  /\ req' = [req EXCEPT ![p].pc = "renderBookmark", ![p].commentId = nextRowid(comment)]
  /\ clock' = clock + 1
  /\ UNCHANGED <<bookmark, backup, media, sqlite_sequence, ALL_BOOKMARKS, ALL_COMMENTS, lastOp, probe, blob, disk, migration>>

\* createNewBookmark: rerenderJustBookmark(db, {...bookmarkRow, id}, [{render: commentRender}])
\* and cacheAllBookmarks(db, userId)
StmtRenderBookmark(p) ==
  /\ req[p].pc = "renderBookmark"
  /\ LET id == req[p].bookmarkId
         bm1 == rerenderJustBookmark(bookmark,
                                     [id |-> id, url |-> req[p].url, title |-> req[p].title],
                                     <<comment[req[p].commentId].innerRender>>, clock)
     IN  /\ bookmark' = bm1
         /\ ALL_BOOKMARKS' = cacheAllBookmarks(bm1, ALL_BOOKMARKS, req[p].userId)
         /\ ALL_COMMENTS' = cacheAllComments(bm1, comment, ALL_COMMENTS, req[p].userId)
  /\ req' = [req EXCEPT ![p].pc = "done", ![p].code = 200]
  /\ clock' = clock + 1
  /\ UNCHANGED <<comment, backup, media, sqlite_sequence, lastOp, probe, blob, disk, migration>>

\* the process is stopped between two statements of a request
StmtStop(p) ==
  /\ req[p].pc \in InFlight
  /\ req' = [req EXCEPT ![p].pc = "stopped"]
  /\ UNCHANGED <<bookmark, comment, backup, media, sqlite_sequence, ALL_BOOKMARKS, ALL_COMMENTS,
                 clock, lastOp, probe, blob, disk, migration>>

NextStmt ==
  \/ \E p \in Requests, userId \in Users, id \in BookmarkIds :
       StmtSelectBookmark(p, userId, id, <<Tok("c"), LF>>)
  \/ \E p \in Requests : StmtAddComment(p)
  \/ \E p \in Requests : StmtFastUpdate(p)
  \/ \E p \in Requests, userId \in Users, r \in ClipRequests : StmtSelectNone(p, userId, r)
  \/ \E p \in Requests : StmtInsertBookmark(p)
  \/ \E p \in Requests : StmtAddFirstComment(p)
  \/ \E p \in Requests : StmtRenderBookmark(p)
  \/ \E p \in Requests : StmtStop(p)

SpecStmt == InitStmt /\ [][NextStmt]_vars

----------------------------------------------------------------------------
(* The v5 server, src/index.ts: comment rows carry contentOnlyRender and fullRender, *)
(* the bookmark has no numComments, comment ids are AUTOINCREMENT                    *)

Reverse(s) == [i \in 1..Len(s) |-> s[Len(s) + 1 - i]]

\* the position of x in a sequence without repetitions
IndexIn(s, x) == CHOOSE i \in 1..Len(s) : s[i] = x

Null == Tok("null")

\* the view comment_graph of db-v5.sql, for one comment id
comment_graph(cm, id) ==
  LET all == Reverse(sortDesc(DOMAIN cm, [c \in DOMAIN cm |-> cm[c].createdTime]))
      part == Reverse(commentsNewestFirst(cm, cm[id].bookmarkId))
      pos == IndexIn(all, id)
      idx == IndexIn(part, id)
  IN  [idx |-> idx,
       olderCommentSameBookmark |-> pos > 1 /\ cm[all[pos - 1]].bookmarkId = cm[id].bookmarkId,
       newerCommentSameBookmark |-> pos < Len(all) /\ cm[all[pos + 1]].bookmarkId = cm[id].bookmarkId,
       olderId |-> IF idx > 1 THEN Num(part[idx - 1]) ELSE Null,
       newerId |-> IF idx < Len(part) THEN Num(part[idx + 1]) ELSE Null]

renderCommentContentOnly(id, c) ==
  <<Tok("<div id=\"comment-"), Num(id), Tok("\" class=\"comment\"><pre class=\"unrendered\">"), LF>>
  \o encode(c.content) \o <<Tok("</pre>"), LF>>
  \o <<Tok(" <a title=\"Link to this comment\" href=\"#comment-"), Num(id),
       Tok("\" class=\"emojilink\">[link]</a>"),
       Tok(" <a title=\"Edit comment\" id=\"edit-comment-button-"), Num(id),
       Tok("\" href=\"#\" class=\"emojilink edit-comment-button comment-button\">[letter]</a>"),
       Tok(" ")>>
  \o commentTimestamp(c) \o <<LF, Tok("</div>")>>

\* headerMaker(bookmark)(commentId): url and title go into the header as they are
headerMaker(b, commentId) ==
  LET urlsnippet == IF urlParses(b.url)
                    THEN <<Tok(" <small class=\"url-snippet\">")>> \o urlHostname(b.url)
                         \o <<Tok("</small>")>>
                    ELSE EmptyStr
      header == IF b.url # EmptyStr /\ b.title # EmptyStr
                THEN headerLink(b.url, b.title) \o urlsnippet
                ELSE IF b.url # EmptyStr THEN headerLink(b.url, b.url)
                ELSE IF b.title # EmptyStr THEN b.title
                ELSE EmptyStr
  IN  <<Tok("<span class=\"bookmark-header\">")>> \o header
      \o <<Tok(" <a title=\"Link to this bookmark\" href=\"#bookmark-"), Num(b.id)>> \o commentId
      \o <<Tok("\" class=\"emojilink\">[link]</a>"),
           Tok(" <a title=\"Add a comment\" id=\"add-comment-button-PLACEHOLDER_ID\" href=\"#\" class=\"emojilink add-comment-button comment-button\">[letter]</a>"),
           Tok(" <a title=\"See raw snapshot\" href=\"/backup/"), Num(b.id),
           Tok("\" class=\"emojilink\">[info]</a>"),
           Tok(" <a title=\"See just this bookmark (and delete it)\" href=\"/bookmark/"), Num(b.id),
           Tok("\" class=\"emojilink\">[boom]</a>"), Tok("</span>")>>

Bool(x) == IF x THEN Tok("true") ELSE Tok("false")

\* the fullRender renderAllCommentsForBookmark stores for comment id of bookmark b
commentFullRender_v5(cm, id, b, numComments) ==
  LET g == comment_graph(cm, id)
      commentId == <<Tok("-comment-"), Num(id)>>
  IN  <<LF, Tok("<div id=\"bookmark-"), Num(b.id)>> \o commentId
      \o <<Tok("\" class=\"bookmark\""), LF,
           Tok("    data-bookmarkid=\""), Num(b.id), Tok("\" "), LF,
           Tok("    data-numcomments=\""), Num(numComments), Tok("\""), LF,
           Tok("    data-oldersamebookmark=\""), Bool(g.olderCommentSameBookmark), Tok("\""), LF,
           Tok("    data-newersamebookmark=\""), Bool(g.newerCommentSameBookmark), Tok("\">"), LF,
           Tok("  ")>>
      \o headerMaker(b, commentId) \o <<LF, Tok("  ")>> \o cm[id].contentOnlyRender
      \o <<LF, Tok("  <div class=\"coda\">"), LF,
           Tok("    <a class=\"emojilink coda-prev\" href=\"#bookmark-"), Num(b.id),
           Tok("-comment-"), g.newerId, Tok("\">[left]</a>"), LF,
           Tok("    <a class=\"emojilink coda-prev\" href=\"#bookmark-"), Num(b.id),
           Tok("-comment-"), g.olderId, Tok("\">[right]</a>"), LF,
           Tok("    ("), Num(g.idx), Tok("/"), Num(numComments), Tok(")"), LF,
           Tok("  </div>"), LF, Tok("</div>")>>

\* the comment table after renderAllCommentsForBookmark(db, b)
renderAllCommentsForBookmark(cm, b) ==
  LET comments == {c \in DOMAIN cm : cm[c].bookmarkId = b.id}
  IN  [c \in DOMAIN cm |->
         IF c \in comments
         THEN [cm[c] EXCEPT !.fullRender = commentFullRender_v5(cm, c, b, Cardinality(comments))]
         ELSE cm[c]]

\* no row is inserted
insertComment_None(cm, seq, content, b, now) == cm

\* the comment table after insertComment(db, content, b) at time now; the new row
\* gets the id after seq
insertComment(cm, seq, content, b, now) ==
  LET id == seq + 1
      commentRow == [bookmarkId |-> b.id, content |-> content, createdTime |-> now,
                     modifiedTime |-> now, contentOnlyRender |-> EmptyStr, fullRender |-> EmptyStr]
      cm1 == Extend(cm, id, commentRow)
      cm2 == [cm1 EXCEPT ![id].contentOnlyRender = renderCommentContentOnly(id, commentRow)]
  IN  renderAllCommentsForBookmark(cm2, b)

\* prelude + the fullRender of the user's comments, newest first
allCommentsFeed_v5(bm, cm, userId) ==
  LET mine == {c \in DOMAIN cm : \E b \in DOMAIN bm : b = cm[c].bookmarkId /\ bm[b].userId = userId}
      rows == sortDesc(mine, [c \in DOMAIN cm |-> cm[c].createdTime])
  IN  prelude \o Join([i \in DOMAIN rows |-> cm[rows[i]].fullRender], <<LF>>)

cacheAllComments_v5(bm, cm, allComments, userId) ==
  Put(allComments, userId, allCommentsFeed_v5(bm, cm, userId))

\* SMALL_BOOKMARK_COLS of a stored bookmark
smallBookmark(bm, id) == [id |-> id, url |-> bm[id].url, title |-> bm[id].title]

\* Save a new backup after a ~month
SAVE_BACKUP_THROTTLE_MILLISECONDS == ThrottleTicks

\* select max(createdTime) from backup where bookmarkId=$id, and
\* (Date.now() - backup.createdTime) < SAVE_BACKUP_THROTTLE_MILLISECONDS: with no backup
\* the time is null and the difference is Date.now(), far more than the throttle
backupIsRecent(bk, id, now) ==
  LET times == {bk[k].createdTime : k \in {j \in DOMAIN bk : bk[j].bookmarkId = id}}
  IN  times # {} /\ now - Max(times) < SAVE_BACKUP_THROTTLE_MILLISECONDS

\* askForHtml of bodyToBookmark when it builds the reply: found is whether the bookmark
\* was there
askForHtml(bk, found, id, url, html, now) ==
  LET ask == url # EmptyStr /\ html = EmptyStr
  IN  IF found /\ ask THEN ask /\ ~backupIsRecent(bk, id, now) ELSE ask

\* POST /bookmark with an AddBookmarkOrCommentPayload
Clip_v5(userId, url, title, content0, quote, html) ==
  IF title = EmptyStr /\ url = EmptyStr
  THEN /\ lastOp' = Rejected(400)
       /\ UNCHANGED <<bookmark, comment, backup, media, sqlite_sequence, ALL_BOOKMARKS,
                      ALL_COMMENTS, clock, req, probe, blob, disk, migration>>
  ELSE
  /\ clock < MaxClock
  /\ sqlite_sequence.comment < MaxComments
  /\ LET content == IF quote /\ content0 # EmptyStr THEN quoted(content0) ELSE content0
         found == bookmarkOf(bookmark, url, title, userId)
         id == IF found # {} THEN CHOOSE b \in found : TRUE ELSE sqlite_sequence.bookmark + 1
         \* createNewBookmark: insert into bookmark (...) with render ''
         bm1 == IF found # {} THEN bookmark
                ELSE Extend(bookmark, id, [userId |-> userId, url |-> url, title |-> title,
                                           createdTime |-> clock, modifiedTime |-> clock,
                                           render |-> EmptyStr])
         cm1 == insertComment(comment, sqlite_sequence.comment, content, smallBookmark(bm1, id), clock)
     IN  /\ found = {} => sqlite_sequence.bookmark < MaxBookmarks
         /\ bookmark' = bm1
         /\ comment' = cm1
         /\ sqlite_sequence' = [bookmark |-> IF found # {} THEN sqlite_sequence.bookmark ELSE id,
                                comment |-> sqlite_sequence.comment + 1]
         /\ ALL_COMMENTS' = cacheAllComments_v5(bm1, cm1, ALL_COMMENTS, userId)
         \* insert into backup (bookmarkId, content, createdTime) leaves the column
         \* original, declared not null, without a value: the statement throws
         /\ lastOp' =
              LET op == IF found # {} THEN "addComment" ELSE "createBookmark"
              IN  IF html # EmptyStr
                  THEN Op(op, userId, 500, id, sqlite_sequence.comment + 1, 0)
                  \* const reply: AskForHtmlPayload = {id, htmlWanted: askForHtml}
                  ELSE Put(Op(op, userId, 200, id, sqlite_sequence.comment + 1, 0), "htmlWanted",
                           askForHtml(backup, found # {}, id, url, html, clock))
  /\ clock' = clock + 1
  /\ UNCHANGED <<backup, media, ALL_BOOKMARKS, req, probe, blob, disk, migration>>

\* POST /bookmark with an AddCommentOnlyPayload {id, comment}
AddCommentOnly_v5(userId, id, content) ==
  /\ clock < MaxClock
  /\ sqlite_sequence.comment < MaxComments
  /\ IF userBookmarkAuth(bookmark, userId, id)
     THEN LET cm1 == insertComment(comment, sqlite_sequence.comment, content,
                                   smallBookmark(bookmark, id), clock)
          IN  /\ comment' = cm1
              /\ sqlite_sequence' = [sqlite_sequence EXCEPT !.comment = @ + 1]
              /\ ALL_COMMENTS' = cacheAllComments_v5(bookmark, cm1, ALL_COMMENTS, userId)
              /\ lastOp' = Op("addComment", userId, 200, id, sqlite_sequence.comment + 1, 0)
              /\ clock' = clock + 1
     ELSE /\ lastOp' = Rejected(401)
          /\ UNCHANGED <<comment, sqlite_sequence, ALL_COMMENTS, clock>>
  /\ UNCHANGED <<bookmark, backup, media, ALL_BOOKMARKS, req, probe, blob, disk, migration>>

\* PUT /comment/:commentId with {content}
commentPut_v5(userId, commentId, content) ==
  /\ clock < MaxClock
  /\ sqlite_sequence.comment < MaxComments
  /\ IF /\ commentId \in DOMAIN comment
        /\ userBookmarkAuth(bookmark, userId, comment[commentId].bookmarkId)
     THEN LET bookmarkId == comment[commentId].bookmarkId
              cm1 == insertComment(comment, sqlite_sequence.comment, content,
                                   smallBookmark(bookmark, bookmarkId), clock)
          IN  /\ comment' = cm1
              /\ sqlite_sequence' = [sqlite_sequence EXCEPT !.comment = @ + 1]
              /\ ALL_COMMENTS' = cacheAllComments_v5(bookmark, cm1, ALL_COMMENTS, userId)
              /\ lastOp' = Op("commentPut", userId, 200, bookmarkId, commentId, 0)
              /\ clock' = clock + 1
     ELSE /\ lastOp' = Rejected(401)
          /\ UNCHANGED <<comment, sqlite_sequence, ALL_COMMENTS, clock>>
  /\ UNCHANGED <<bookmark, backup, media, ALL_BOOKMARKS, req, probe, blob, disk, migration>>

\* GET /merge/:fromId/:toId
merge_v5(userId, fromId, toId) ==
  /\ clock < MaxClock
  /\ IF userBookmarkAuth(bookmark, userId, toId) /\ userBookmarkAuth(bookmark, userId, fromId)
     THEN LET cm1 == [c \in DOMAIN comment |->
                        IF comment[c].bookmarkId = fromId
                        THEN [comment[c] EXCEPT !.bookmarkId = toId] ELSE comment[c]]
              bm1 == Restrict(bookmark, DOMAIN bookmark \ {fromId})
              times == {cm1[c].createdTime : c \in {d \in DOMAIN cm1 : cm1[d].bookmarkId = toId}}
              bm2 == IF toId \in DOMAIN bm1 /\ times # {}
                     THEN [bm1 EXCEPT ![toId].modifiedTime = Max(times)] ELSE bm1
          IN  /\ comment' = cm1
              /\ backup' = withoutBookmark(backup, fromId)
              /\ media' = {m \in media : m.bookmarkId # fromId}
              /\ bookmark' = bm2
              /\ ALL_COMMENTS' = cacheAllComments_v5(bm2, cm1, ALL_COMMENTS, userId)
              /\ lastOp' = Op("merge", userId, 200, toId, 0, 0)
              /\ clock' = clock + 1
     ELSE /\ lastOp' = Rejected(401)
          /\ UNCHANGED <<bookmark, comment, backup, media, ALL_COMMENTS, clock>>
  /\ UNCHANGED <<sqlite_sequence, ALL_BOOKMARKS, req, probe, blob, disk, migration>>

\* DELETE /bookmark/:id
deleteBookmark_v5(userId, bookmarkId) ==
  /\ clock < MaxClock
  /\ IF userBookmarkAuth(bookmark, userId, bookmarkId)
     THEN LET bm1 == Restrict(bookmark, DOMAIN bookmark \ {bookmarkId})
              cm1 == withoutBookmark(comment, bookmarkId)
          IN  /\ backup' = withoutBookmark(backup, bookmarkId)
              /\ media' = {m \in media : m.bookmarkId # bookmarkId}
              /\ comment' = cm1
              /\ bookmark' = bm1
              /\ ALL_COMMENTS' = cacheAllComments_v5(bm1, cm1, ALL_COMMENTS, userId)
              /\ lastOp' = Op("delete", userId, 200, bookmarkId, 0, 0)
              /\ clock' = clock + 1
     ELSE /\ lastOp' = Rejected(401)
          /\ UNCHANGED <<bookmark, comment, backup, media, ALL_COMMENTS, clock>>
  /\ UNCHANGED <<sqlite_sequence, ALL_BOOKMARKS, req, probe, blob, disk, migration>>

\* GET /: if (!ALL_BOOKMARKS.has(user.id)) { cacheAllComments(db, user.id); }
\* res.send(ALL_BOOKMARKS.get(user.id))
getAllBookmarks_v5(userId) ==
  /\ ALL_COMMENTS' = IF userId \in DOMAIN ALL_BOOKMARKS THEN ALL_COMMENTS
                     ELSE cacheAllComments_v5(bookmark, comment, ALL_COMMENTS, userId)
  /\ UNCHANGED <<bookmark, comment, backup, media, sqlite_sequence, ALL_BOOKMARKS, clock, lastOp,
                 req, probe, blob, disk, migration>>

\* GET /c: if (!ALL_COMMENTS.has(user.id)) { cacheAllComments(db, user.id); }
getAllComments_v5(userId) ==
  /\ ALL_COMMENTS' = IF userId \in DOMAIN ALL_COMMENTS THEN ALL_COMMENTS
                     ELSE cacheAllComments_v5(bookmark, comment, ALL_COMMENTS, userId)
  /\ UNCHANGED <<bookmark, comment, backup, media, sqlite_sequence, ALL_BOOKMARKS, clock, lastOp,
                 req, probe, blob, disk, migration>>

Next_v5 ==
  \/ \E userId \in Users, r \in ClipRequests :
       Clip_v5(userId, r.url, r.title, r.comment, r.quote, r.html)
  \/ \E userId \in Users : Clip_v5(userId, EmptyStr, EmptyStr, EmptyStr, FALSE, EmptyStr)
  \/ \E userId \in Users, id \in BookmarkIds : AddCommentOnly_v5(userId, id, <<Tok("c"), LF>>)
  \/ \E userId \in Users, commentId \in CommentIds, content \in Contents :
       commentPut_v5(userId, commentId, content)
  \/ \E userId \in Users, fromId \in BookmarkIds, toId \in BookmarkIds :
       merge_v5(userId, fromId, toId)
  \/ \E userId \in Users, id \in BookmarkIds : deleteBookmark_v5(userId, id)
  \/ \E userId \in Users, id \in BookmarkIds : AddHtml(userId, id, <<Tok("<html>")>>)
  \/ \E userId \in Users, id \in BookmarkIds, files \in Uploads :
       mediaPost(userId, id, TRUE, files)
  \/ \E userId \in Users, id \in BookmarkIds : mediaPost(userId, id, FALSE, << >>)
  \/ \E userId \in Users : getAllBookmarks_v5(userId)
  \/ \E userId \in Users : getAllComments_v5(userId)

Spec_v5 == Init /\ [][Next_v5]_vars

----------------------------------------------------------------------------
(* Direct calls of the render engine: every input is drawn at the start *)

ProbeComments ==
  [bookmarkId : {1}, siblingIdx : 1..MaxProbe, content : Contents,
   createdTime : 1..MaxProbe, modifiedTime : 1..MaxProbe,
   innerRender : {EmptyStr}, fullRender : {EmptyStr}, renderedTime : {-1}]

ProbeBookmarks == [id : 1..MaxProbe, url : Urls, title : Titles, numComments : 0..MaxProbe]

InitRender ==
  /\ bookmark = << >>
  /\ \E id \in 1..MaxProbe, c \in ProbeComments :
       /\ c.createdTime <= c.modifiedTime
       /\ comment = [i \in {id} |-> c]
       /\ \E b \in ProbeBookmarks, useSuffix \in BOOLEAN :
            probe = [id |-> id, bookmark |-> b,
                     idSuffix |-> IF useSuffix THEN <<Tok("-comment-"), Num(c.siblingIdx)>>
                                  ELSE EmptyStr,
                     calls |-> 0, threw |-> FALSE,
                     returned |-> << >>, persisted |-> << >>,
                     header |-> << >>, headerCalled |-> FALSE]
  /\ backup = << >>
  /\ media = {}
  /\ blob = {}
  /\ disk = << >>
  /\ migration = NotRunning
  /\ sqlite_sequence = [bookmark |-> 0, comment |-> 0]
  /\ ALL_BOOKMARKS = << >>
  /\ ALL_COMMENTS = << >>
  /\ clock = MaxProbe + 1
  /\ lastOp = NoOp
  /\ req = << >>

\* rerenderComment(db, comment, bookmark), called up to twice on the same row
CallRerenderComment ==
  /\ probe.calls < 2
  /\ ~probe.threw
  /\ bookmarkValid(probe.bookmark)
  /\ LET id == probe.id
         c == comment[id]
         cm == rerenderComment(comment, id, c, probe.bookmark, clock)
     IN  /\ comment' = cm
         /\ probe' = [probe EXCEPT
                        !.calls = @ + 1,
                        !.returned = Append(@, commentInnerRender(id, c, probe.bookmark)),
                        !.persisted = Append(@, cm[id])]
  /\ clock' = clock + 1
  /\ UNCHANGED <<bookmark, backup, media, sqlite_sequence, ALL_BOOKMARKS, ALL_COMMENTS, lastOp, req, blob, disk, migration>>

\* the assertion of rerenderComment fails before anything is written
CallRerenderCommentThrows ==
  /\ ~probe.threw
  /\ ~bookmarkValid(probe.bookmark)
  /\ probe' = [probe EXCEPT !.threw = TRUE]
  /\ UNCHANGED <<bookmark, comment, backup, media, sqlite_sequence, ALL_BOOKMARKS, ALL_COMMENTS,
                 clock, lastOp, req, blob, disk, migration>>

\* renderBookmarkHeader(bookmark, idSuffix)
CallRenderBookmarkHeader ==
  /\ ~probe.headerCalled
  /\ probe' = [probe EXCEPT !.headerCalled = TRUE,
                            !.header = renderBookmarkHeader(probe.bookmark, probe.idSuffix)]
  /\ UNCHANGED <<bookmark, comment, backup, media, sqlite_sequence, ALL_BOOKMARKS, ALL_COMMENTS,
                 clock, lastOp, req, blob, disk, migration>>

NextRender ==
  \/ CallRerenderComment
  \/ CallRerenderCommentThrows
  \/ CallRenderBookmarkHeader

SpecRender == InitRender /\ [][NextRender]_vars

----------------------------------------------------------------------------
(* The database files.  A database is its schema (the tables in the order of   *)
(* sqlite_master, the columns of each, the AUTOINCREMENT tables), its rows, a  *)
(* set of records for each table, and the tables that have change-log          *)
(* triggers.  Column values that no code looks into are short strings.         *)

SCHEMA_VERSION_REQUIRED == 5
FROM == 3
TO == 4

\* the files of .data: `yamanote-v${FROM}.db`, `yamanote-v${TO}${randomString}.db`,
\* `yamanote-v${TO}.db` and the file the server opens
SourceFile == "yamanote-v3.db"
TempFile == "yamanote-v4-random.db"
DestFile == "yamanote-v4.db"
ServerFile == "yamanote-v5.db"

\* schema versions a file named yamanote-v3.db may hold
SourceVersions == {2, 3, 4, 5}

\* create table, in the order of db-vN.sql; sqlite_sequence comes with the first
\* AUTOINCREMENT table
schemaTables(v) ==
  CASE v = 2 -> <<"_yamanote_db_state", "user", "bookmark", "sqlite_sequence", "comment",
                  "backup", "media">>
    [] v = 3 -> <<"_yamanote_db_state", "user", "bookmark", "sqlite_sequence", "comment",
                  "backup", "media", "blob">>
    [] v = 4 -> <<"_yamanote_db_state", "user", "token", "bookmark", "sqlite_sequence",
                  "comment", "backup", "media", "blob">>
    [] v = 5 -> <<"_yamanote_db_state", "user", "sqlite_sequence", "token", "bookmark",
                  "comment", "backup", "media", "blob">>

\* the columns of a table of db-vN.sql
schemaColumns(v, table) ==
  CASE table = "_yamanote_db_state" -> {"schemaVersion"}
    [] table = "sqlite_sequence" -> {"name", "seq"}
    [] table = "user" ->
         IF v = 2 THEN {"id", "name", "hashed", "salt", "iterations", "keylen", "digest"}
         ELSE {"id", "displayName", "githubId"}
    [] table = "token" -> {"token", "description", "userId"}
    [] table = "bookmark" ->
         {"id", "userId", "url", "title", "createdTime", "modifiedTime", "render"}
           \cup (IF v <= 4 THEN {"renderedTime"} ELSE {})
           \cup (IF v = 4 THEN {"numComments"} ELSE {})
    [] table = "comment" ->
         {"id", "bookmarkId", "content", "createdTime", "modifiedTime"}
           \cup (IF v <= 3 THEN {"render", "renderedTime"} ELSE {})
           \cup (IF v = 4 THEN {"siblingIdx", "innerRender", "fullRender", "renderedTime"} ELSE {})
           \cup (IF v = 5 THEN {"contentOnlyRender", "fullRender"} ELSE {})
    [] table = "backup" ->
         {"id", "bookmarkId", "content", "createdTime"} \cup (IF v >= 3 THEN {"original"} ELSE {})
    [] table = "media" ->
         IF v = 2 THEN {"id", "path", "mime", "content", "createdTime", "numBytes"}
         ELSE {"id", "path", "bookmarkId", "sha256", "createdTime"}
    [] table = "blob" -> {"id", "content", "mime", "createdTime", "numBytes", "sha256"}

\* the tables declared INTEGER PRIMARY KEY AUTOINCREMENT
schemaAutoincrement(v) == IF v = 5 THEN {"user", "bookmark", "comment"} ELSE {"bookmark"}

\* a file sqlite3(fname) has just created
EmptyDb == [tables |-> << >>, columns |-> << >>, autoincrement |-> {}, rows |-> << >>,
            triggers |-> {}]

\* an empty file after db.exec(readFileSync(`db-v${v}.sql`))
execSchema(v) ==
  [tables |-> schemaTables(v),
   columns |-> [t \in Range(schemaTables(v)) |-> schemaColumns(v, t)],
   autoincrement |-> schemaAutoincrement(v),
   rows |-> [t \in Range(schemaTables(v)) |->
               IF t = "_yamanote_db_state" THEN {[schemaVersion |-> v]} ELSE {}],
   triggers |-> {}]

\* a table made anew at every call
justCreateBackupTable_Recreates(db) ==
  [db EXCEPT !.tables = IF "_change_log" \in Range(@) THEN @ ELSE Append(@, "_change_log"),
             !.columns = Put(@, "_change_log",
                             {"id", "created", "action", "table_name", "obj_id", "oldvals"}),
             !.rows = Put(@, "_change_log", {})]

\* CREATE TABLE IF NOT EXISTS _change_log
justCreateBackupTable(db) ==
  IF "_change_log" \in Range(db.tables) THEN db
  ELSE [db EXCEPT !.tables = Append(@, "_change_log"),
                  !.columns = Put(@, "_change_log",
                                  {"id", "created", "action", "table_name", "obj_id", "oldvals"}),
                  !.rows = Put(@, "_change_log", {})]

\* SELECT name FROM PRAGMA_TABLE_INFO($table)
columns(db, table) == db.columns[table]

\* DROP TRIGGER IF EXISTS $TABLE_track_insert, _update and _delete
dropTriggers(db, table) == [db EXCEPT !.triggers = {g \in @ : g.table # table}]

\* CREATE TRIGGER $TABLE_track_insert, _update and _delete, whose bodies name the columns
\* cols; a trigger of a name there is already is an error
createTriggers(db, table, cols) ==
  IF \E g \in db.triggers : g.table = table
  THEN [threw |-> TRUE, db |-> db]
  ELSE [threw |-> FALSE, db |-> [db EXCEPT !.triggers = @ \cup {[table |-> table, cols |-> cols]}]]

\* makeBackupTriggers(db, table, ignoreColumns): the database after db.exec(ret) and
\* whether it threw
makeBackupTriggers(db, table, ignoreColumns) ==
  LET db1 == justCreateBackupTable(db)
      cols == columns(db1, table) \ ignoreColumns
  IN  createTriggers(dropTriggers(db1, table), table, cols)

\* SELECT name FROM sqlite_master WHERE type='table'
tables(db) == db.tables

\* a row is inserted; sqlite keeps the largest id of an AUTOINCREMENT table in
\* sqlite_sequence
insertRow(db, table, row) ==
  LET rows1 == Put(db.rows, table, db.rows[table] \cup {row})
      old == {r \in rows1["sqlite_sequence"] : r.name = table}
      seq == Max({row.id} \cup {r.seq : r \in old})
  IN  [db EXCEPT !.rows =
         IF table \in db.autoincrement
         THEN Put(rows1, "sqlite_sequence",
                  (rows1["sqlite_sequence"] \ old) \cup {[name |-> table, seq |-> seq]})
         ELSE rows1]

\* a check that lets any version pass
dbVersionCheck_AnyVersion(db) == TRUE

\* dbVersionCheck(db) returns: dbState?.schemaVersion === SCHEMA_VERSION_REQUIRED
dbVersionCheck(db) ==
  LET dbState == db.rows["_yamanote_db_state"]
  IN  dbState # {} /\ \A r \in dbState : r.schemaVersion = SCHEMA_VERSION_REQUIRED

\* the tables dbInit makes triggers for
TrackedTables == {"media", "blob", "backup", "bookmark", "comment"}

\* the ignoreColumns dbInit gives for a table
ignoreColumns(table) ==
  CASE table = "backup" -> {"content"}
    [] table \in {"bookmark", "comment"} -> {"render", "renderedTime"}
    [] OTHER -> {}

\* the calls of makeBackupTriggers in dbInit, until one throws
RECURSIVE allBackupTriggers(_, _)
allBackupTriggers(db, todo) ==
  IF todo = {} THEN [threw |-> FALSE, db |-> db]
  ELSE LET table == CHOOSE t \in todo : TRUE
           made == makeBackupTriggers(db, table, ignoreColumns(table))
       IN  IF made.threw THEN made ELSE allBackupTriggers(made.db, todo \ {table})

\* dbInit(fname).  A file without the table _yamanote_db_state is a file without
\* any table.
dbInit(fname) ==
  LET db == IF fname \in DOMAIN disk THEN disk[fname] ELSE EmptyDb
      tableThere == "_yamanote_db_state" \in Range(tables(db))
      db1 == IF tableThere THEN db ELSE execSchema(SCHEMA_VERSION_REQUIRED)
  IN  /\ IF dbVersionCheck(db1)
         THEN LET made == allBackupTriggers(db1, TrackedTables)
              IN  /\ disk' = Put(disk, fname, made.db)
                  /\ lastOp' = [op |-> "dbInit", fname |-> fname, threw |-> made.threw]
         ELSE \* throw new Error('db wrong version: need ' + SCHEMA_VERSION_REQUIRED)
              /\ disk' = Put(disk, fname, db1)
              /\ lastOp' = [op |-> "dbInit", fname |-> fname, threw |-> TRUE]
      /\ UNCHANGED <<bookmark, comment, backup, media, blob, sqlite_sequence, ALL_BOOKMARKS,
                     ALL_COMMENTS, clock, req, probe, migration>>

----------------------------------------------------------------------------
(* migrations/v3-to-v4.ts, statement by statement: no statement is inside a    *)
(* transaction, and an exception ends the process                              *)

\* rows in the order of id, whatever the column
RECURSIVE orderBy_ById(_, _)
orderBy_ById(rows, key) ==
  IF rows = {} THEN << >>
  ELSE LET first == CHOOSE r \in rows : \A q \in rows : r.id <= q.id
       IN  <<first>> \o orderBy_ById(rows \ {first}, key)

\* rows in ascending order of a column, rows with the same value in the order of id
RECURSIVE orderBy(_, _)
orderBy(rows, key) ==
  IF rows = {} THEN << >>
  ELSE LET first == CHOOSE r \in rows :
                      \A q \in rows : r[key] < q[key] \/ (r[key] = q[key] /\ r.id <= q.id)
       IN  <<first>> \o orderBy(rows \ {first}, key)

\* {...old, ...extra}
spread(old, extra) ==
  [k \in DOMAIN old \cup DOMAIN extra |-> IF k \in DOMAIN extra THEN extra[k] ELSE old[k]]

\* the columns a statement names
BookmarkInsertColumns ==
  {"id", "userId", "url", "title", "createdTime", "modifiedTime", "numComments", "render",
   "renderedTime"}
CommentInsertColumns ==
  {"id", "bookmarkId", "siblingIdx", "content", "createdTime", "modifiedTime", "innerRender",
   "fullRender", "renderedTime"}

\* b.prepare(`insert into ${table} (${keys})`) succeeds: the table and the columns exist
prepares(b, table, keys) == table \in Range(b.tables) /\ keys \subseteq b.columns[table]

\* columns declared not null without a default
notNull(b, table) ==
  IF table \in {"sqlite_sequence", "_change_log"} THEN {} ELSE b.columns[table] \ {"id"}

\* st.run(x) succeeds for an object with these keys: every parameter is bound and
\* every not-null column gets a value
runs(b, table, named, keys) == named \subseteq keys /\ notNull(b, table) \subseteq named

RECURSIVE insertAll(_, _, _)
insertAll(b, table, rows) ==
  IF rows = {} THEN b
  ELSE LET x == CHOOSE r \in rows : TRUE
       IN  insertAll(insertRow(b, table, x), table, rows \ {x})

\* bookmarkIdToNumComments.get(id)
bookmarkIdToNumComments(commentsOldestFirst, id) ==
  Cardinality({i \in DOMAIN commentsOldestFirst : commentsOldestFirst[i].bookmarkId = id})

\* bookmarkIdToCommentIdToComment.get(old.bookmarkId)?.commentIdToIdx.get(old.id) for
\* the comment at position i
commentIdToIdx(commentsOldestFirst, i) ==
  Cardinality({j \in 1..i : commentsOldestFirst[j].bookmarkId = commentsOldestFirst[i].bookmarkId})

\* the loop for (const old of bookmarks): the destination and whether it threw
RECURSIVE insertBookmarks(_, _, _)
insertBookmarks(b, bookmarks, commentsOldestFirst) ==
  IF bookmarks = << >> THEN [threw |-> FALSE, db |-> b]
  ELSE LET old == Head(bookmarks)
           numComments == bookmarkIdToNumComments(commentsOldestFirst, old.id)
           row == spread(old, [numComments |-> numComments])
       IN  IF numComments = 0 \/ ~runs(b, "bookmark", BookmarkInsertColumns, DOMAIN row)
           THEN [threw |-> TRUE, db |-> b]
           ELSE insertBookmarks(insertRow(b, "bookmark", [c \in BookmarkInsertColumns |-> row[c]]),
                                Tail(bookmarks), commentsOldestFirst)

\* the loop for (const old of commentsOldestFirst), from position i on
RECURSIVE insertComments(_, _, _)
insertComments(b, commentsOldestFirst, i) ==
  IF i > Len(commentsOldestFirst) THEN [threw |-> FALSE, db |-> b]
  ELSE LET old == commentsOldestFirst[i]
           siblingIdx == commentIdToIdx(commentsOldestFirst, i)
           \* innerRender and fullRender are old.render: undefined when old has no render
           kept == [k \in DOMAIN old \ {"innerRender", "fullRender"} |-> old[k]]
           replacement ==
             IF "render" \in DOMAIN old
             THEN spread(kept, [siblingIdx |-> siblingIdx, innerRender |-> old.render,
                                fullRender |-> old.render])
             ELSE spread(kept, [siblingIdx |-> siblingIdx])
       IN  IF ~runs(b, "comment", CommentInsertColumns, DOMAIN replacement)
           THEN [threw |-> TRUE, db |-> b]
           ELSE insertComments(insertRow(b, "comment", [c \in CommentInsertColumns |-> replacement[c]]),
                               commentsOldestFirst, i + 1)

\* no table is passed over
skipped_None(table) == FALSE

\* every table whose name starts with _ is passed over
skipped_Underscore(table) == table \in {"_yamanote_db_state", "_change_log"}

\* table.startsWith('_') && !table.includes('change_log')
skipped(table) == table \in {"_yamanote_db_state", "_change_log"} /\ table # "_change_log"

\* a failure that goes on to the renaming
Failed_Renames == [pc |-> "rename", next |-> 0]

\* an uncaught exception ends the script
Failed == [pc |-> "failed", next |-> 0]

\* const a = sqlite3(source, {readonly: true}); const b = sqlite3(temporary file)
MigOpen ==
  /\ migration.pc = "start"
  /\ LET b == IF TempFile \in DOMAIN disk THEN disk[TempFile] ELSE EmptyDb
     IN  IF SourceFile \in DOMAIN disk /\ Len(tables(b)) = 0
         THEN /\ disk' = Put(disk, TempFile, b)
              /\ migration' = [pc |-> "schema", next |-> 0]
         ELSE /\ migration' = Failed
              /\ UNCHANGED disk
  /\ UNCHANGED <<bookmark, comment, backup, media, blob, sqlite_sequence, ALL_BOOKMARKS,
                 ALL_COMMENTS, clock, lastOp, req, probe>>

\* b.exec(readFileSync(`db-v${TO}.sql`)); justCreateBackupTable(b)
MigSchema ==
  /\ migration.pc = "schema"
  /\ disk' = [disk EXCEPT ![TempFile] = justCreateBackupTable(execSchema(TO))]
  /\ migration' = [pc |-> "copy", next |-> 1]
  /\ UNCHANGED <<bookmark, comment, backup, media, blob, sqlite_sequence, ALL_BOOKMARKS,
                 ALL_COMMENTS, clock, lastOp, req, probe>>

\* one turn of for (const table of tablesList)
MigCopyTable ==
  /\ migration.pc = "copy"
  /\ migration.next <= Len(tables(disk[SourceFile]))
  /\ LET a == disk[SourceFile]
         b == disk[TempFile]
         table == tables(a)[migration.next]
         all == a.rows[table]
         keys == DOMAIN (CHOOSE x \in all : TRUE)
     IN  IF \/ skipped(table)
            \/ table \in {"bookmark", "comment"}
            \/ all = {}
         THEN /\ migration' = [migration EXCEPT !.next = @ + 1]
              /\ UNCHANGED disk
         ELSE IF prepares(b, table, keys) /\ runs(b, table, keys, keys)
         THEN /\ disk' = [disk EXCEPT ![TempFile] = insertAll(b, table, all)]
              /\ migration' = [migration EXCEPT !.next = @ + 1]
         ELSE /\ migration' = Failed
              /\ UNCHANGED disk
  /\ UNCHANGED <<bookmark, comment, backup, media, blob, sqlite_sequence, ALL_BOOKMARKS,
                 ALL_COMMENTS, clock, lastOp, req, probe>>

\* the bookmark table, with the new column numComments
MigBookmarks ==
  /\ migration.pc = "copy"
  /\ migration.next > Len(tables(disk[SourceFile]))
  /\ LET a == disk[SourceFile]
         commentsOldestFirst == orderBy(a.rows["comment"], "createdTime")
         done == insertBookmarks(disk[TempFile], orderBy(a.rows["bookmark"], "id"),
                                 commentsOldestFirst)
     IN  /\ disk' = [disk EXCEPT ![TempFile] = done.db]
         /\ migration' = IF done.threw THEN Failed ELSE [pc |-> "comments", next |-> 0]
  /\ UNCHANGED <<bookmark, comment, backup, media, blob, sqlite_sequence, ALL_BOOKMARKS,
                 ALL_COMMENTS, clock, lastOp, req, probe>>

\* the comment table, with the new columns siblingIdx, innerRender and fullRender
MigComments ==
  /\ migration.pc = "comments"
  /\ LET a == disk[SourceFile]
         done == insertComments(disk[TempFile], orderBy(a.rows["comment"], "createdTime"), 1)
     IN  /\ disk' = [disk EXCEPT ![TempFile] = done.db]
         /\ migration' = IF done.threw THEN Failed ELSE [pc |-> "rename", next |-> 0]
  /\ UNCHANGED <<bookmark, comment, backup, media, blob, sqlite_sequence, ALL_BOOKMARKS,
                 ALL_COMMENTS, clock, lastOp, req, probe>>

\* a renaming that overwrites
MigRename_Overwrites ==
  /\ migration.pc = "rename"
  /\ disk' = [f \in (DOMAIN disk \ {TempFile}) \cup {DestFile} |->
                IF f = DestFile THEN disk[TempFile] ELSE disk[f]]
  /\ migration' = [pc |-> "done", next |-> 0]
  /\ UNCHANGED <<bookmark, comment, backup, media, blob, sqlite_sequence, ALL_BOOKMARKS,
                 ALL_COMMENTS, clock, lastOp, req, probe>>

\* a.close(); b.close(); the file loses the random part of its name
MigRename ==
  /\ migration.pc = "rename"
  /\ IF DestFile \in DOMAIN disk
     THEN \* assert(!ls.includes(dest), 'will not overwrite')
          /\ migration' = Failed
          /\ UNCHANGED disk
     ELSE /\ disk' = [f \in (DOMAIN disk \ {TempFile}) \cup {DestFile} |->
                        IF f = DestFile THEN disk[TempFile] ELSE disk[f]]
          /\ migration' = [pc |-> "done", next |-> 0]
  /\ UNCHANGED <<bookmark, comment, backup, media, blob, sqlite_sequence, ALL_BOOKMARKS,
                 ALL_COMMENTS, clock, lastOp, req, probe>>

\* the script is run again after a run that was done; its temporary file has a new
\* random name, and that of the run before is gone with the renaming
MigRerun ==
  /\ migration.pc = "done"
  /\ migration' = [pc |-> "start", next |-> 0]
  /\ UNCHANGED <<bookmark, comment, backup, media, blob, sqlite_sequence, ALL_BOOKMARKS,
                 ALL_COMMENTS, clock, lastOp, req, probe, disk>>

\* the SQL value NULL; every other column value is a positive number
SqlNull == 0

\* rows of a source database of schema version v
userRow(v, id) ==
  IF v = 2
  THEN [id |-> id, name |-> "n", hashed |-> "h", salt |-> "s", iterations |-> 1, keylen |-> 1,
        digest |-> "d"]
  ELSE [id |-> id, displayName |-> "n", githubId |-> id]

bookmarkRow(v, id, numComments) ==
  LET core == [id |-> id, userId |-> 1, url |-> "u", title |-> id, createdTime |-> id,
               modifiedTime |-> id, render |-> "r"]
  IN  CASE v <= 3 -> spread(core, [renderedTime |-> id])
        [] v = 4 -> spread(core, [renderedTime |-> id, numComments |-> numComments])
        [] v = 5 -> core

commentRow(v, id, bookmarkId, createdTime, siblingIdx) ==
  LET core == [id |-> id, bookmarkId |-> bookmarkId, content |-> "c", createdTime |-> createdTime,
               modifiedTime |-> createdTime]
  IN  CASE v <= 3 -> spread(core, [render |-> "r", renderedTime |-> createdTime])
        [] v = 4 -> spread(core, [siblingIdx |-> siblingIdx, innerRender |-> "i",
                                  fullRender |-> "f", renderedTime |-> createdTime])
        [] v = 5 -> spread(core, [contentOnlyRender |-> "i", fullRender |-> "f"])

backupRow(v, id) ==
  LET core == [id |-> id, bookmarkId |-> 1, content |-> "h", createdTime |-> 1]
  IN  IF v >= 3 THEN spread(core, [original |-> "h"]) ELSE core

\* the entry the insert trigger of bookmark wrote for the bookmark id
logRow(id) ==
  [id |-> id, created |-> id, action |-> "INSERT", table_name |-> "bookmark", obj_id |-> id,
   oldvals |-> SqlNull]

\* a database a server of schema version v has written: nu users, bookmarks 1..nb, one
\* comment for each element of owner (the bookmark id of the comment) created at the
\* time in times, and nbk backups; with nlog > 0 the server kept a change log, which
\* holds the entries of the first nlog bookmarks
sourceDb(v, nu, nb, owner, times, nbk, nlog) ==
  LET cs == {commentRow(v, c, owner[c], times[c],
                        Cardinality({d \in DOMAIN owner : owner[d] = owner[c] /\ times[d] <= times[c]})) :
               c \in DOMAIN owner}
      bs == {bookmarkRow(v, id, Cardinality({c \in DOMAIN owner : owner[c] = id})) : id \in 1..nb}
      d1 == insertAll(execSchema(v), "user", {userRow(v, k) : k \in 1..nu})
      d2 == insertAll(d1, "bookmark", bs)
      d3 == insertAll(d2, "comment", cs)
      d4 == insertAll(d3, "backup", {backupRow(v, k) : k \in 1..nbk})
  IN  IF nlog = 0 THEN d4
      ELSE insertAll(justCreateBackupTable(d4), "_change_log", {logRow(k) : k \in 1..nlog})

InitFiles ==
  /\ \E v \in SourceVersions, nu \in 0..1, nb \in 0..MaxMigBookmarks, nc \in 0..MaxMigComments,
        nbk \in 0..1, nlog \in 0..MaxMigLog :
       \E owner \in [1..nc -> 1..MaxMigBookmarks] :
          \E times \in {t \in [1..nc -> 1..nc] : \A c \in 1..nc, d \in 1..nc : t[c] = t[d] => c = d} :
             \* before the first user there is no bookmark, comment or backup
             /\ nu = 0 => nb = 0 /\ nc = 0 /\ nbk = 0
             \* an entry of the log is the insert of a bookmark
             /\ nlog <= nb
             /\ disk = [f \in {SourceFile} |-> sourceDb(v, nu, nb, owner, times, nbk, nlog)]
  /\ migration = [pc |-> "start", next |-> 0]
  /\ bookmark = << >>
  /\ comment = << >>
  /\ backup = << >>
  /\ media = {}
  /\ blob = {}
  /\ sqlite_sequence = [bookmark |-> 0, comment |-> 0]
  /\ ALL_BOOKMARKS = << >>
  /\ ALL_COMMENTS = << >>
  /\ clock = 1
  /\ lastOp = NoOp
  /\ req = << >>
  /\ probe = << >>

\* the files dbInit is called on
FileNames == {SourceFile, DestFile, ServerFile}

NextFiles ==
  \/ \E fname \in FileNames : dbInit(fname)
  \/ MigOpen
  \/ MigSchema
  \/ MigCopyTable
  \/ MigBookmarks
  \/ MigComments
  \/ MigRename
  \/ MigRerun

SpecFiles == InitFiles /\ [][NextFiles]_vars

----------------------------------------------------------------------------
(* The change log of src/makeBackupTriggers.ts.  A statement on a table fires  *)
(* the trigger made for it, whose body runs inside the statement: an error in  *)
(* the body is the error of the statement, and the statement changes nothing.  *)
(* An entry of _change_log is its id, action, table_name, obj_id and oldvals,  *)
(* the JSON object as a function from column names to values.                  *)

\* the storage class of a column value: blob.content is declared `content blob not null`
storageClass(table, col) == IF table = "blob" /\ col = "content" THEN "blob" ELSE "other"

\* unique (...) and `unique not null` of db-v5.sql
uniqueKeys(table) ==
  CASE table = "bookmark" -> {{"url", "title", "userId"}}
    [] table = "media" -> {{"sha256", "path", "bookmarkId"}}
    [] table = "blob" -> {{"sha256"}}
    [] OTHER -> {}

\* a statement that leaves row in the table beside the rows others fails on a
\* constraint: the primary key or a unique key
constraintError(table, others, row) ==
  \E r \in others :
     \/ r.id = row.id
     \/ \E key \in uniqueKeys(table) : \A c \in key : r[c] = row[c]

\* json_array('c', OLD.c, NEW.c), ... raises `JSON cannot hold BLOB values` when one of
\* its arguments is a blob
jsonArrayError(table, cols, old, new) ==
  \E c \in cols :
     \/ (old[c] # SqlNull /\ storageClass(table, c) = "blob")
     \/ (new[c] # SqlNull /\ storageClass(table, c) = "blob")

\* INSERT INTO _change_log (action, table_name, obj_id, oldvals): id INTEGER PRIMARY KEY
\* is one more than the largest
changeLogInsert(db, action, table, objId, oldvals) ==
  LET log == db.rows["_change_log"]
      id == IF log = {} THEN 1 ELSE Max({e.id : e \in log}) + 1
  IN  insertRow(db, "_change_log",
                [id |-> id, action |-> action, table_name |-> table, obj_id |-> objId,
                 oldvals |-> oldvals])

\* an object of every column of the trigger
changes_All(cols, old, new) == [c \in cols |-> old[c]]

\* json_group_object(col, oldval) over the columns of the trigger WHERE oldval IS NOT
\* newval; with no such column it is the empty object
changes(cols, old, new) == [c \in {d \in cols : old[d] # new[d]} |-> old[c]]

\* a row NEW that is the row OLD
nullRow_Old(old) == old

\* the row NEW of a delete trigger: json_array('c', OLD.c, null)
nullRow(old) == [c \in DOMAIN old |-> SqlNull]

\* the triggers of a table: none, or those of the last makeBackupTriggers
tracks(db, table) == {g \in db.triggers : g.table = table}

\* $TABLE_track_insert after a row was inserted
trackInsert(db, table, new) ==
  IF tracks(db, table) = {} THEN [threw |-> FALSE, db |-> db]
  ELSE [threw |-> FALSE, db |-> changeLogInsert(db, "INSERT", table, new.id, SqlNull)]

\* $TABLE_track_update and $TABLE_track_delete after a row was updated or deleted
trackOld(db, table, action, old, new) ==
  IF tracks(db, table) = {} THEN [threw |-> FALSE, db |-> db]
  ELSE LET cols == (CHOOSE g \in tracks(db, table) : TRUE).cols
       IN  IF jsonArrayError(table, cols, old, new)
           THEN [threw |-> TRUE, db |-> db]
           ELSE [threw |-> FALSE,
                 db |-> changeLogInsert(db, action, table, old.id, changes(cols, old, new))]

\* insert into $table of one row
execInsert(db, table, row) ==
  IF constraintError(table, db.rows[table], row) THEN [threw |-> TRUE, db |-> db]
  ELSE trackInsert(insertRow(db, table, row), table, row)

\* update $table set ... where id=$id, for the row old there is
execUpdate(db, table, old, set) ==
  LET new == spread(old, set)
      others == db.rows[table] \ {old}
      tracked == trackOld([db EXCEPT !.rows[table] = others \cup {new}], table, "UPDATE", old, new)
  IN  IF constraintError(table, others, new) \/ tracked.threw
      THEN [threw |-> TRUE, db |-> db]
      ELSE tracked

\* delete from $table where id=$id, for the row old there is
execDelete(db, table, old) ==
  LET tracked == trackOld([db EXCEPT !.rows[table] = @ \ {old}], table, "DELETE", old,
                          nullRow(old))
  IN  IF tracked.threw THEN [threw |-> TRUE, db |-> db] ELSE tracked

\* a statement, the values it gives, and what became of it
Statement(action, table, id, values, done) ==
  [op |-> action, table |-> table, id |-> id, values |-> values, threw |-> done.threw]

\* the values a statement gives to columns
Values == 1..MaxValue

\* the server, or a sqlite3 shell, runs an insert of one row on the server's file
ExecInsert(table, id, v) ==
  /\ ServerFile \in DOMAIN disk
  /\ Cardinality(disk[ServerFile].rows["_change_log"]) < MaxLog
  /\ LET db == disk[ServerFile]
         row == [c \in columns(db, table) |-> IF c = "id" THEN id ELSE v]
         done == execInsert(db, table, row)
     IN  /\ disk' = [disk EXCEPT ![ServerFile] = done.db]
         /\ lastOp' = Statement("INSERT", table, id, row, done)
  /\ UNCHANGED <<bookmark, comment, backup, media, blob, sqlite_sequence, ALL_BOOKMARKS,
                 ALL_COMMENTS, clock, req, probe, migration>>

\* an update of the columns set of the row id to the value v
ExecUpdate(table, id, set, v) ==
  /\ ServerFile \in DOMAIN disk
  /\ Cardinality(disk[ServerFile].rows["_change_log"]) < MaxLog
  /\ set \subseteq columns(disk[ServerFile], table)
  /\ \E old \in disk[ServerFile].rows[table] :
        /\ old.id = id
        /\ LET values == [c \in set |-> v]
               done == execUpdate(disk[ServerFile], table, old, values)
           IN  /\ disk' = [disk EXCEPT ![ServerFile] = done.db]
               /\ lastOp' = Statement("UPDATE", table, id, values, done)
  /\ UNCHANGED <<bookmark, comment, backup, media, blob, sqlite_sequence, ALL_BOOKMARKS,
                 ALL_COMMENTS, clock, req, probe, migration>>

\* a delete of the row id
ExecDelete(table, id) ==
  /\ ServerFile \in DOMAIN disk
  /\ Cardinality(disk[ServerFile].rows["_change_log"]) < MaxLog
  /\ \E old \in disk[ServerFile].rows[table] :
        /\ old.id = id
        /\ LET done == execDelete(disk[ServerFile], table, old)
           IN  /\ disk' = [disk EXCEPT ![ServerFile] = done.db]
               /\ lastOp' = Statement("DELETE", table, id, << >>, done)
  /\ UNCHANGED <<bookmark, comment, backup, media, blob, sqlite_sequence, ALL_BOOKMARKS,
                 ALL_COMMENTS, clock, req, probe, migration>>

\* the columns one update statement on a table sets: one or two of them
UpdateSets(table) ==
  {set \in SUBSET schemaColumns(SCHEMA_VERSION_REQUIRED, table) : Cardinality(set) \in 1..2}

\* no file yet: the server has not been started
InitLog ==
  /\ disk = << >>
  /\ migration = NotRunning
  /\ bookmark = << >>
  /\ comment = << >>
  /\ backup = << >>
  /\ media = {}
  /\ blob = {}
  /\ sqlite_sequence = [bookmark |-> 0, comment |-> 0]
  /\ ALL_BOOKMARKS = << >>
  /\ ALL_COMMENTS = << >>
  /\ clock = 1
  /\ lastOp = NoOp
  /\ req = << >>
  /\ probe = << >>

NextLog ==
  \/ dbInit(ServerFile)
  \/ \E table \in TrackedTables, id \in 1..MaxRowId, v \in Values : ExecInsert(table, id, v)
  \/ \E table \in TrackedTables, id \in 1..MaxRowId, v \in Values :
        \E set \in UpdateSets(table) : ExecUpdate(table, id, set, v)
  \/ \E table \in TrackedTables, id \in 1..MaxRowId : ExecDelete(table, id)

SpecLog == InitLog /\ [][NextLog]_vars

----------------------------------------------------------------------------
(* The migration from version 2 to 3, src/unnamed/part_002: the loop of up(a, b)   *)
(* over the backups, the urls of each and the media rows of each url.  The source  *)
(* is disk[OldFile]: its media rows in the order of their ids and its backups, each *)
(* with the urls updateDomUrls finds in it; media and blob are the tables of the   *)
(* destination.                                                                    *)

OldFile == "yamanote.db"

\* mediaSelect.all({path}): select * from media where path=$path
mediaSelect(a, path) == SelectSeq(a.media, LAMBDA m : m.path = path)

\* the turns of for (const oldMedia of medias) of one backup, in order
RECURSIVE urlTurns(_, _, _)
urlTurns(a, bookmarkId, urls) ==
  IF urls = << >> THEN << >>
  ELSE LET medias == mediaSelect(a, Head(urls))
       IN  [i \in 1..Len(medias) |->
              [path |-> Head(urls), bookmarkId |-> bookmarkId, oldMedia |-> medias[i]]]
           \o urlTurns(a, bookmarkId, Tail(urls))

\* the turns of the innermost loop of for (const backup of backups), in order
RECURSIVE backupTurns(_, _)
backupTurns(a, backups) ==
  IF backups = << >> THEN << >>
  ELSE urlTurns(a, Head(backups).bookmarkId, Head(backups).urls)
       \o backupTurns(a, Tail(backups))

\* const newMedia: New.mediaRow
newMedia(turn) ==
  [path |-> turn.path, bookmarkId |-> turn.bookmarkId,
   sha256 |-> sha256hash(turn.oldMedia.content), createdTime |-> turn.oldMedia.createdTime]

\* const newBlob: New.blobRow; numBytes is given oldMedia.createdTime
newBlob(turn) ==
  [content |-> turn.oldMedia.content, mime |-> turn.oldMedia.mime,
   createdTime |-> turn.oldMedia.createdTime, numBytes |-> turn.oldMedia.createdTime,
   sha256 |-> sha256hash(turn.oldMedia.content)]

\* the code of the error an insert into media throws, "" if it throws none:
\* unique (sha256, path, bookmarkId)
mediaInsertError(md, row) ==
  IF \E m \in md : m.sha256 = row.sha256 /\ m.path = row.path /\ m.bookmarkId = row.bookmarkId
  THEN "SQLITE_CONSTRAINT_UNIQUE" ELSE ""

\* the code of the error an insert into blob throws: sha256 text unique not null
blobInsertError(bl, row) ==
  IF \E b \in bl : b.sha256 = row.sha256 THEN "SQLITE_CONSTRAINT_UNIQUE" ELSE ""

\* a test no error passes
isUniqueConstraintError_Never(code) == FALSE

\* uniqueConstraintError(e) of src/pathsInterfaces.ts, on the code of the error
isUniqueConstraintError(code) == code = "SQLITE_CONSTRAINT_UNIQUE"

\* what catch (e) does with an error: swallowed, or thrown again
caught(code) == IF isUniqueConstraintError(code) THEN "media" ELSE "failed"

\* mediaInsert.run(newMedia), first statement of the try block
UpMediaInsert ==
  /\ migration.pc = "media"
  /\ migration.next <= Len(migration.turns)
  /\ LET row == newMedia(migration.turns[migration.next])
         code == mediaInsertError(media, row)
     IN  IF code = ""
         THEN /\ media' = media \cup {row}
              /\ migration' = [migration EXCEPT !.pc = "blob"]
         ELSE /\ migration' = [migration EXCEPT !.pc = caught(code), !.next = @ + 1]
              /\ UNCHANGED media
  /\ UNCHANGED <<bookmark, comment, backup, blob, sqlite_sequence, ALL_BOOKMARKS,
                 ALL_COMMENTS, clock, lastOp, req, probe, disk>>

\* blobInsert.run(newBlob), second statement of the try block
UpBlobInsert ==
  /\ migration.pc = "blob"
  /\ LET row == newBlob(migration.turns[migration.next])
         code == blobInsertError(blob, row)
     IN  IF code = ""
         THEN /\ blob' = blob \cup {row}
              /\ migration' = [migration EXCEPT !.pc = "media", !.next = @ + 1]
         ELSE /\ migration' = [migration EXCEPT !.pc = caught(code), !.next = @ + 1]
              /\ UNCHANGED blob
  /\ UNCHANGED <<bookmark, comment, backup, media, sqlite_sequence, ALL_BOOKMARKS,
                 ALL_COMMENTS, clock, lastOp, req, probe, disk>>

\* the loops are over: up(a, b) returns
UpReturn ==
  /\ migration.pc = "media"
  /\ migration.next > Len(migration.turns)
  /\ migration' = [migration EXCEPT !.pc = "done"]
  /\ UNCHANGED <<bookmark, comment, backup, media, blob, sqlite_sequence, ALL_BOOKMARKS,
                 ALL_COMMENTS, clock, lastOp, req, probe, disk>>

\* the media rows of a version 2 database: unique (path, createdTime)
OldMedia ==
  UNION {[1..n -> [path : {"p", "q"}, content : {<<Tok("x")>>, <<Tok("y")>>}]] :
           n \in 0..MaxOldMedia}

\* the urls updateDomUrls returns for a backup
BackupUrls == UNION {[1..n -> {"p", "q"}] : n \in 0..MaxUrls}

OldBackups == UNION {[1..n -> [bookmarkId : 1..2, urls : BackupUrls]] : n \in 0..MaxOldBackups}

InitUp ==
  /\ \E old \in OldMedia, backups \in OldBackups :
        LET a == [media |-> [i \in DOMAIN old |->
                               [id |-> i, path |-> old[i].path, content |-> old[i].content,
                                mime |-> <<Tok("image/png")>>, createdTime |-> i]],
                  backup |-> backups]
        IN  /\ disk = [f \in {OldFile} |-> a]
            /\ migration = [pc |-> "media", next |-> 1, turns |-> backupTurns(a, a.backup)]
  /\ bookmark = << >>
  /\ comment = << >>
  /\ backup = << >>
  /\ media = {}
  /\ blob = {}
  /\ sqlite_sequence = [bookmark |-> 0, comment |-> 0]
  /\ ALL_BOOKMARKS = << >>
  /\ ALL_COMMENTS = << >>
  /\ clock = 1
  /\ lastOp = NoOp
  /\ req = << >>
  /\ probe = << >>

NextUp ==
  \/ UpMediaInsert
  \/ UpBlobInsert
  \/ UpReturn

SpecUp == InitUp /\ [][NextUp]_vars

----------------------------------------------------------------------------
(* The media download of the v4 server, src/unnamed/part_007.  The handler calls    *)
(* downloadImagesVideos without await: the call runs inside the request up to its   *)
(* first await and the rest runs after the reply, one step for each await.  req is   *)
(* the calls made so far; each keeps what it wrote to the console.  A document is    *)
(* its markup with the src of each img as one token; every src is absolute or a      *)
(* data: url.                                                                        *)

imgOpen == Tok("<img src=\"")
imgClose == Tok("\">")
PngUrl == <<Tok("http://x.test/a.png")>>
GifUrl == <<Tok("http://y.test/b.gif")>>
DataUrl == <<Tok("data:image/png;base64,AA")>>

Documents ==
  { <<Tok("<p>"), imgOpen>> \o DataUrl \o <<imgClose>>,
    <<imgOpen>> \o PngUrl \o <<imgClose>>,
    <<imgOpen>> \o PngUrl \o <<imgClose, imgOpen>> \o GifUrl \o <<imgClose>> }

\* the ways await fetch(url, init) and the lines after it end
Failures == {"FETCH FAILED TO FETCH", "RESPONSE ERROR", "no mime"}
Outcomes == Failures \cup {"ok"}

Least(S) == CHOOSE x \in S : \A y \in S : x <= y

\* fixUrl(url, parentUrl): undefined, here the empty string, for no source and for a data url
fixUrl(url, parentUrl) == IF url = EmptyStr \/ url = DataUrl THEN EmptyStr ELSE url

\* mediaBookmarkUrl(bookmarkId, url)
mediaBookmarkUrl(bookmarkId, url) == <<Tok("/media/"), Num(bookmarkId), Tok("/")>> \o url

\* the img nodes of the document: the places of their src
imgs(html) == {i \in DOMAIN html : i > 1 /\ html[i - 1] = imgOpen}

\* the urls updateDomUrls returns, in the order of the document
RECURSIVE updateDomUrls(_, _, _)
updateDomUrls(html, parentUrl, bookmarkId) ==
  IF Len(html) < 2 THEN << >>
  ELSE IF html[1] = imgOpen
       THEN (IF fixUrl(<<html[2]>>, parentUrl) = EmptyStr THEN << >>
             ELSE <<fixUrl(<<html[2]>>, parentUrl)>>)
            \o updateDomUrls(SubSeq(html, 3, Len(html)), parentUrl, bookmarkId)
       ELSE updateDomUrls(Tail(html), parentUrl, bookmarkId)

\* dom.serialize() after updateDomUrls: each src that has a url points to the mirror
serialize(html, parentUrl, bookmarkId) ==
  <<Tok("<html><head></head><body>")>>
  \o Concat([i \in DOMAIN html |->
               IF i \in imgs(html) /\ fixUrl(<<html[i]>>, parentUrl) # EmptyStr
               THEN mediaBookmarkUrl(bookmarkId, fixUrl(<<html[i]>>, parentUrl))
               ELSE <<html[i]>>])
  \o <<Tok("</body></html>")>>

\* update backup set content=$content where bookmarkId=$bookmarkId
updateContent(bk, bookmarkId, content) ==
  [k \in DOMAIN bk |-> IF bk[k].bookmarkId = bookmarkId
                       THEN [bk[k] EXCEPT !.content = content] ELSE bk[k]]

\* the turns of for (const url of ...) from turn from on whose mediaCounter finds no row
uncounted(task, md, from) ==
  {i \in from..Len(task.urls) :
     ~ \E m \in md : m.path = task.urls[i] /\ m.bookmarkId = task.bookmarkId}

\* downloadImagesVideos from turn from of its loop up to the next await: the call and
\* the backup table
resume(task, bk, md, from) ==
  IF uncounted(task, md, from) = {}
  THEN [task |-> [task EXCEPT !.pc = "done", !.turn = Len(task.urls) + 1],
        backup |-> updateContent(bk, task.bookmarkId, task.content)]
  ELSE [task |-> [task EXCEPT !.pc = "fetch", !.turn = Least(uncounted(task, md, from))],
        backup |-> bk]

\* downloadImagesVideos(db, bookmarkId) up to its first await
downloadImagesVideos(bk, bm, md, bookmarkId) ==
  LET rows == {k \in DOMAIN bk : bk[k].bookmarkId = bookmarkId}
      task == [bookmarkId |-> bookmarkId, urls |-> << >>, turn |-> 1, pc |-> "returned",
               content |-> EmptyStr, console |-> << >>]
  IN  IF \/ rows = {}
         \/ bk[Least(rows)].original = EmptyStr
         \/ bookmarkId \notin DOMAIN bm
         \/ bm[bookmarkId].url = EmptyStr
      THEN [task |-> task, backup |-> bk]
      ELSE LET original == bk[Least(rows)].original
               url == bm[bookmarkId].url
           IN  resume([task EXCEPT !.urls = updateDomUrls(original, url, bookmarkId),
                                   !.content = serialize(original, url, bookmarkId)],
                      bk, md, 1)

\* the body fetch answers with, and its content-type
body(url) == <<Tok("bytes of ")>> \o url
contentType(url) == IF url = PngUrl THEN <<Tok("image/png")>> ELSE <<Tok("image/gif")>>

\* AddBookmarkOrCommentPayload with html naming no bookmark of the user
ClipNewDownload(userId, url, title, content0, quote, html) ==
  /\ clock < MaxClock
  /\ title # EmptyStr \/ url # EmptyStr
  /\ html # EmptyStr
  /\ Cardinality(DOMAIN comment) < MaxComments
  /\ sqlite_sequence.bookmark < MaxBookmarks
  /\ Cardinality(DOMAIN backup) < MaxSnapshots
  /\ bookmarkOf(bookmark, url, title, userId) = {}
  /\ LET content == IF quote /\ content0 # EmptyStr THEN quoted(content0) ELSE content0
         id == sqlite_sequence.bookmark + 1
         created == createNewBookmark(bookmark, comment, id, url, title, content, userId, clock)
         started == downloadImagesVideos(insertBackup(backup, id, html, clock), created[1],
                                         media, id)
     IN  /\ bookmark' = created[1]
         /\ comment' = created[2]
         /\ sqlite_sequence' = [sqlite_sequence EXCEPT !.bookmark = id]
         /\ ALL_BOOKMARKS' = cacheAllBookmarks(created[1], ALL_BOOKMARKS, userId)
         /\ ALL_COMMENTS' = cacheAllComments(created[1], created[2], ALL_COMMENTS, userId)
         /\ backup' = started.backup
         /\ req' = Append(req, started.task)
         /\ lastOp' = Op("createBookmark", userId, 200, id, nextRowid(comment), 0)
  /\ clock' = clock + 1
  /\ UNCHANGED <<media, probe, blob, disk, migration>>

\* AddHtmlPayload {id, html}
AddHtmlDownload(userId, id, html) ==
  /\ clock < MaxClock
  /\ Cardinality(DOMAIN backup) < MaxSnapshots
  /\ IF userBookmarkAuth(bookmark, userId, id)
     THEN LET started == downloadImagesVideos(insertBackup(backup, id, html, clock), bookmark,
                                              media, id)
          IN  /\ backup' = started.backup
              /\ req' = Append(req, started.task)
              /\ lastOp' = Op("addHtml", userId, 200, id, 0, 0)
              /\ clock' = clock + 1
     ELSE /\ lastOp' = Rejected(401)
          /\ UNCHANGED <<backup, req, clock>>
  /\ UNCHANGED <<bookmark, comment, media, sqlite_sequence, ALL_BOOKMARKS, ALL_COMMENTS, probe,
                 blob, disk, migration>>

\* saveUrl from the end of await fetch(url, init) to its next await or, with no await
\* left in it, on through downloadImagesVideos to the next await
FetchSettles(t, outcome) ==
  /\ t \in DOMAIN req
  /\ req[t].pc = "fetch"
  /\ LET task == req[t]
         url == task.urls[task.turn]
         sha256 == sha256hash(body(url))
         row == [path |-> url, bookmarkId |-> task.bookmarkId, sha256 |-> sha256,
                 createdTime |-> clock]
     IN  IF outcome = "ok" /\ ~uniqueConstraintError(media, row)
         THEN /\ media' = media \cup {row}
              /\ blob' = blobInsert(blob, [buffer |-> body(url), mimetype |-> contentType(url)],
                                    sha256, clock)
              /\ req' = [req EXCEPT ![t].pc = "sleep"]
              /\ UNCHANGED backup
         ELSE LET logged == [task EXCEPT !.console =
                               Append(@, IF outcome = "ok" THEN "FETCH FAILED TO FETCH"
                                         ELSE outcome)]
                  next == resume(logged, backup, media, task.turn + 1)
              IN  /\ req' = [req EXCEPT ![t] = next.task]
                  /\ backup' = next.backup
                  /\ UNCHANGED <<media, blob>>
  /\ UNCHANGED <<bookmark, comment, sqlite_sequence, ALL_BOOKMARKS, ALL_COMMENTS, clock, lastOp,
                 probe, disk, migration>>

\* the end of await sleep(...): saveUrl returns and downloadImagesVideos goes on
SleepEnds(t) ==
  /\ t \in DOMAIN req
  /\ req[t].pc = "sleep"
  /\ LET next == resume(req[t], backup, media, req[t].turn + 1)
     IN  /\ req' = [req EXCEPT ![t] = next.task]
         /\ backup' = next.backup
  /\ UNCHANGED <<bookmark, comment, media, blob, sqlite_sequence, ALL_BOOKMARKS, ALL_COMMENTS,
                 clock, lastOp, probe, disk, migration>>

DownloadUrls == {EmptyStr, <<Tok("http://"), Tok("x.test")>>}

NextDownload ==
  \/ \E url \in DownloadUrls, html \in Documents :
       ClipNewDownload(1, url, <<Tok("T")>>, <<Tok("a")>>, FALSE, html)
  \/ \E userId \in Users, id \in BookmarkIds, html \in Documents :
       AddHtmlDownload(userId, id, html)
  \/ \E id \in BookmarkIds : deleteBookmark(1, id)
  \/ \E t \in 1..MaxSnapshots, outcome \in Outcomes : FetchSettles(t, outcome)
  \/ \E t \in 1..MaxSnapshots : SleepEnds(t)

SpecDownload == Init /\ [][NextDownload]_vars

----------------------------------------------------------------------------
(* Properties *)

\* the comment rows of bookmark b
commentsOf(cm, b) == {c \in DOMAIN cm : cm[c].bookmarkId = b}

\* where each comment fragment opens in a render: the comment ids, in text order
fragmentIds(render) ==
  LET opens == SelectSeq([i \in 1..Len(render) |-> i],
                         LAMBDA i : render[i] = Tok("<div id=\"comment-"))
  IN  [k \in DOMAIN opens |-> render[opens[k] + 1][2]]

\* the fragment stored for comment c stands whole in the render
fragmentPresent(render, cm, c) ==
  \E i \in DOMAIN render :
     /\ i + Len(cm[c].innerRender) - 1 <= Len(render)
     /\ SubSeq(render, i, i + Len(cm[c].innerRender) - 1) = cm[c].innerRender

\* a request that wrote completed in this step
Completed(op) == lastOp'.op = op /\ lastOp'.code = 200 /\ clock' # clock

\* C1: in every reachable state the siblingIdx values of the comments of a bookmark
\* with numComments = N are exactly 1..N, with no duplicate and no gap
C1_SiblingIdxDense ==
  \A b \in DOMAIN bookmark :
     /\ {comment[c].siblingIdx : c \in commentsOf(comment, b)} = 1..bookmark[b].numComments
     /\ Cardinality(commentsOf(comment, b)) = bookmark[b].numComments

C3_TwoAddsCountTwo ==
  \A p \in Requests, q \in Requests :
     (/\ p # q
      /\ req[p].kind = "add" /\ req[p].pc = "done" /\ req[p].code = 200
      /\ req[q].kind = "add" /\ req[q].pc = "done" /\ req[q].code = 200
      /\ req[p].bookmarkId = req[q].bookmarkId
      /\ \A r \in Requests \ {p, q} : req[r].bookmarkId # req[p].bookmarkId)
     => LET b == req[p].bookmarkId
            before == IF req[p].numComments < req[q].numComments
                      THEN req[p].numComments ELSE req[q].numComments
        IN  /\ \A c \in commentsOf(comment, b), d \in commentsOf(comment, b) :
                 comment[c].siblingIdx = comment[d].siblingIdx => c = d
            /\ bookmark[b].numComments = before + 2

\* C4: an add-comment request that failed or stopped after its comment row was
\* inserted leaves no comment row that the bookmark does not count and show
C4_AllOrNothing ==
  \A p \in Requests :
     (/\ req[p].kind = "add"
      /\ req[p].pc \in {"failed", "stopped"}
      /\ req[p].commentId \in DOMAIN comment)
     => LET b == req[p].bookmarkId
            c == req[p].commentId
        IN  /\ comment[c].siblingIdx <= bookmark[b].numComments
            /\ fragmentPresent(bookmark[b].render, comment, c)

\* C5: PUT /comment/:commentId changes only that comment's content, modifiedTime and
\* renders: no comment row is added or removed, its siblingIdx and createdTime stay,
\* and every other comment keeps its content and timestamps
C5_EditChangesOnlyThatComment ==
  [][Completed("commentPut") =>
       /\ DOMAIN comment' = DOMAIN comment
       /\ \A c \in DOMAIN comment :
            /\ comment'[c].bookmarkId = comment[c].bookmarkId
            /\ \A f \in DOMAIN comment[c] \cap {"siblingIdx", "createdTime"} :
                 comment'[c][f] = comment[c][f]
            /\ c # lastOp'.commentId =>
                 /\ comment'[c].content = comment[c].content
                 /\ comment'[c].modifiedTime = comment[c].modifiedTime]_vars

C7_FastEqualsFull ==
  (/\ lastOp.op \in {"createBookmark", "addComment"} /\ lastOp.code = 200
   /\ lastOp.bookmarkId \in DOMAIN bookmark)
  => LET b == lastOp.bookmarkId
     IN  bookmark[b].render =
           justBookmarkRender(partBookmarkById(bookmark, b), persistedRenders(comment, b))

\* C8: for every url, title and id suffix the opening fragment renderBookmarkHeader
\* returns holds no newline
C8_HeaderOneLine ==
  probe.headerCalled => LF \notin Range(probe.header[1])

C10_CachesFresh ==
  (lastOp.code = 200
   /\ lastOp.op \in {"createBookmark", "addComment", "commentPut", "merge", "delete"})
  => LET u == lastOp.userId
     IN  /\ u \in DOMAIN ALL_BOOKMARKS
         /\ u \in DOMAIN ALL_COMMENTS
         /\ ALL_BOOKMARKS[u] = allBookmarksFeed(bookmark, u)
         /\ ALL_COMMENTS[u] = allCommentsFeed(bookmark, comment, u)

\* the users whose rows a cached feed was built from: the owners of the bookmarks of
\* the comments whose fragments stand in it
feedOwners(feed) ==
  {bookmark[comment[c].bookmarkId].userId :
     c \in {d \in Range(fragmentIds(feed)) : d \in DOMAIN comment /\ comment[d].bookmarkId \in DOMAIN bookmark}}

\* C11: the feeds cached under user u are built only from the bookmarks of u and the
\* comments of those bookmarks, so the rows of another user never show in them
C11_FeedsOwnRowsOnly ==
  /\ \A u \in DOMAIN ALL_BOOKMARKS : feedOwners(ALL_BOOKMARKS[u]) \subseteq {u}
  /\ \A u \in DOMAIN ALL_COMMENTS : feedOwners(ALL_COMMENTS[u]) \subseteq {u}

\* bookmark id is not one of user u's
notOwned(u, id) == id \notin DOMAIN bookmark \/ bookmark[id].userId # u

\* C12: a mutation request by user u that names a bookmark not owned by u (add-comment-only,
\* add-html, delete, merge, comment edit through a comment id, media upload) changes no
\* row of bookmark, comment, backup or media and is answered 401, which is neither the
\* bad-request nor the accepted outcome
C12_NotOwnedRefused ==
  [][\A u \in Users :
       LET refused == /\ lastOp'.code = 401
                      /\ lastOp'.code \notin {200, 400}
                      /\ UNCHANGED <<bookmark, comment, backup, media>>
       IN  /\ \A id \in BookmarkIds :
                notOwned(u, id) =>
                  /\ AddCommentOnly_v5(u, id, <<Tok("c"), LF>>) => refused
                  /\ AddHtml(u, id, <<Tok("<html>")>>) => refused
                  /\ deleteBookmark_v5(u, id) => refused
                  /\ \A files \in Uploads : mediaPost(u, id, TRUE, files) => refused
                  /\ \A other \in BookmarkIds :
                       (merge_v5(u, id, other) \/ merge_v5(u, other, id)) => refused
           /\ \A c \in DOMAIN comment :
                notOwned(u, comment[c].bookmarkId) =>
                  \A content \in Contents : commentPut_v5(u, c, content) => refused]_vars

\* an upload to another user's bookmark was refused
C12_Witness ==
  /\ lastOp.op = "mediaPost" /\ lastOp.code = 401
  /\ lastOp.bookmarkId \in DOMAIN bookmark
  /\ bookmark[lastOp.bookmarkId].userId # lastOp.userId

\* the rows of a table that belong to bookmarks other than B are the same before and after
othersKept(before, after, B) ==
  /\ DOMAIN after \subseteq DOMAIN before
  /\ \A i \in DOMAIN before :
       before[i].bookmarkId # B => i \in DOMAIN after /\ after[i] = before[i]

\* C13: after the owner deletes bookmark B there is no bookmark row B and no comment,
\* backup or media row with bookmarkId B, while the rows of every other bookmark and
\* all blob rows are as they were
C13_DeleteFrame ==
  [][Completed("delete") =>
       LET B == lastOp'.bookmarkId
       IN  /\ B \in DOMAIN bookmark /\ bookmark[B].userId = lastOp'.userId
           /\ B \notin DOMAIN bookmark'
           /\ \A c \in DOMAIN comment' : comment'[c].bookmarkId # B
           /\ \A k \in DOMAIN backup' : backup'[k].bookmarkId # B
           /\ \A m \in media' : m.bookmarkId # B
           /\ DOMAIN bookmark' = DOMAIN bookmark \ {B}
           /\ \A b \in DOMAIN bookmark' : bookmark'[b] = bookmark[b]
           /\ othersKept(comment, comment', B)
           /\ othersKept(backup, backup', B)
           /\ media' \subseteq media
           /\ \A m \in media : m.bookmarkId # B => m \in media'
           /\ blob' = blob]_vars

\* a bookmark with an uploaded file was deleted: its media row is gone, the blob stays
C13_Witness ==
  /\ lastOp.op = "delete" /\ lastOp.code = 200
  /\ media = {}
  /\ blob # {}

\* C14: after a merge of bookmark A into bookmark B every comment that referenced A
\* references B, A and its backup and media rows are gone, B.numComments is the number
\* of comments referencing B, and B.modifiedTime is the time of its latest comment
C14_MergeMovesAndCounts ==
  [][Completed("merge") =>
       LET B == lastOp'.bookmarkId
       IN  \A A \in (DOMAIN bookmark \ DOMAIN bookmark') \ {B} :
              /\ \A c \in DOMAIN comment :
                   comment[c].bookmarkId = A => c \in DOMAIN comment' /\ comment'[c].bookmarkId = B
              /\ \A k \in DOMAIN backup' : backup'[k].bookmarkId # A
              /\ \A m \in media' : m.bookmarkId # A
              /\ "numComments" \in DOMAIN bookmark'[B] =>
                   bookmark'[B].numComments = Cardinality(commentsOf(comment', B))
              /\ bookmark'[B].modifiedTime =
                   Max({comment'[c].createdTime : c \in commentsOf(comment', B)})]_vars

\* file f of an upload to bookmark id is already stored: a media row has its bookmarkId,
\* path and sha256
alreadyStored(md, id, f) ==
  \E m \in md : m.bookmarkId = id /\ m.path = f.originalname /\ m.sha256 = sha256hash(f.buffer)

\* C15: an upload by the owner of files that are all stored already for the bookmark
\* (same bookmarkId, path and sha256) leaves the media table as it was and is accepted
C15_DuplicateUploadNoOp ==
  [][\A u \in Users, id \in BookmarkIds, files \in Uploads :
       (/\ mediaPost(u, id, TRUE, files)
        /\ ~notOwned(u, id)
        /\ files # << >>
        /\ \A i \in DOMAIN files : alreadyStored(media, id, files[i]))
       => /\ media' = media
          /\ Cardinality(media') = Cardinality(media)
          /\ lastOp'.code = 200]_vars

\* a file was uploaded a second time: the upload was accepted and the only media row
\* is the one of the first upload
C15_Witness ==
  /\ lastOp.op = "mediaPost" /\ lastOp.code = 200
  /\ lastOp.files # << >>
  /\ \A i \in DOMAIN lastOp.files : alreadyStored(media, lastOp.bookmarkId, lastOp.files[i])
  /\ \A m \in media : m.createdTime < clock - 1

\* C16: the blob table holds at most one row for a sha256, and the sha256 of every
\* media row has a blob row
C16_OneBlobPerHash ==
  /\ \A b1 \in blob, b2 \in blob : b1.sha256 = b2.sha256 => b1 = b2
  /\ \A m \in media : \E b \in blob : b.sha256 = m.sha256

\* an upload carried a content stored by an earlier upload and a new one: the blob of
\* the first is the old row, the second got a row
C16_Witness ==
  /\ lastOp.op = "mediaPost" /\ lastOp.code = 200
  /\ Cardinality(blob) = 2
  /\ Cardinality(media) = 2
  /\ \E b \in blob : b.createdTime < clock - 1
  /\ \E b \in blob : b.createdTime = clock - 1

\* C17: no two bookmark rows of one user share url and title; clipping a url and title
\* the user has already adds a comment to that bookmark and no bookmark row, and
\* clipping a url and title only another user has makes a bookmark row of the user's own
C17_OneBookmarkPerUrlTitleUser ==
  [][/\ \A b1 \in DOMAIN bookmark', b2 \in DOMAIN bookmark' :
          (/\ bookmark'[b1].userId = bookmark'[b2].userId
           /\ bookmark'[b1].url = bookmark'[b2].url
           /\ bookmark'[b1].title = bookmark'[b2].title) => b1 = b2
     /\ \A u \in Users, r \in ClipRequests :
          (/\ Clip_v5(u, r.url, r.title, r.comment, r.quote, r.html)
           /\ clock' # clock)
          => LET had == {b \in DOMAIN bookmark : /\ bookmark[b].userId = u
                                                 /\ bookmark[b].url = r.url
                                                 /\ bookmark[b].title = r.title}
                 newComments == DOMAIN comment' \ DOMAIN comment
                 newBookmarks == DOMAIN bookmark' \ DOMAIN bookmark
             IN  /\ Cardinality(newComments) = 1
                 /\ IF had # {}
                    THEN /\ newBookmarks = {}
                         /\ \A c \in newComments : comment'[c].bookmarkId \in had
                    ELSE /\ Cardinality(newBookmarks) = 1
                         /\ \A b \in newBookmarks :
                              /\ bookmark'[b].userId = u
                              /\ bookmark'[b].url = r.url
                              /\ bookmark'[b].title = r.title
                              /\ \A c \in newComments : comment'[c].bookmarkId = b]_vars

\* two users hold a bookmark of the same url and title, one of them with two comments
C17_Witness ==
  \E b1 \in DOMAIN bookmark, b2 \in DOMAIN bookmark :
     /\ bookmark[b1].userId # bookmark[b2].userId
     /\ bookmark[b1].url = bookmark[b2].url
     /\ bookmark[b1].title = bookmark[b2].title
     /\ Cardinality(commentsOf(comment, b1)) = 2

\* C18: every accepted add-comment and every accepted comment edit sets modifiedTime of
\* the bookmark the comment belongs to to the time of the request
C18_CommentBumpsBookmark ==
  [][(Completed("addComment") \/ Completed("commentPut")) =>
       /\ lastOp'.bookmarkId \in DOMAIN bookmark'
       /\ bookmark'[lastOp'.bookmarkId].modifiedTime = clock]_vars

\* the schemaVersion a database file states, 0 if it has no table _yamanote_db_state
schemaVersionOf(db) ==
  IF "_yamanote_db_state" \in Range(db.tables) /\ db.rows["_yamanote_db_state"] # {}
  THEN (CHOOSE r \in db.rows["_yamanote_db_state"] : TRUE).schemaVersion
  ELSE 0

\* C19: dbInit on a database whose schemaVersion is not the required one throws and
\* leaves the file as it was, so nothing is migrated and no trigger is installed; dbInit
\* on a file without the state table creates the schema of the required version, whose
\* check then passes
C19_DbInitVersionGate ==
  [][\A fname \in FileNames :
       dbInit(fname) =>
         LET db == IF fname \in DOMAIN disk THEN disk[fname] ELSE EmptyDb
         IN  /\ schemaVersionOf(db) \notin {0, SCHEMA_VERSION_REQUIRED} =>
                  /\ lastOp'.threw
                  /\ disk'[fname] = db
                  /\ disk'[fname].triggers = db.triggers
             /\ "_yamanote_db_state" \notin Range(db.tables) =>
                  /\ ~lastOp'.threw
                  /\ schemaVersionOf(disk'[fname]) = SCHEMA_VERSION_REQUIRED
                  /\ \A t \in Range(schemaTables(SCHEMA_VERSION_REQUIRED)) :
                       /\ t \in Range(disk'[fname].tables)
                       /\ disk'[fname].columns[t] = schemaColumns(SCHEMA_VERSION_REQUIRED, t)]_vars

\* the server was started on the file a migration had just written: dbInit threw and
\* the file has its version 4 and no trigger
C19_Witness ==
  /\ lastOp.op = "dbInit" /\ lastOp.threw
  /\ lastOp.fname = DestFile
  /\ migration.pc = "done"
  /\ schemaVersionOf(disk[DestFile]) = TO
  /\ disk[DestFile].triggers = {}

\* C20: the migration from version 3 to 4, run on a source database whose
\* schemaVersion is not 3, does not complete, and the file it writes to holds no row
\* beyond the version row of its schema
C20_WrongSourceFailsBeforeWriting ==
  (SourceFile \in DOMAIN disk /\ schemaVersionOf(disk[SourceFile]) # FROM) =>
    /\ migration.pc # "done"
    /\ TempFile \in DOMAIN disk =>
         \A t \in DOMAIN disk[TempFile].rows :
            t # "_yamanote_db_state" => disk[TempFile].rows[t] = {}

\* every table-copy and derivation step of up(a, b) has been done: b holds the rows of
\* every table of a that is copied as it is, and a bookmark and a comment for every
\* bookmark and comment of a
allStepsDone(a, b) ==
  /\ \A t \in Range(a.tables) \ {"_yamanote_db_state", "bookmark", "comment"} :
        a.rows[t] # {} => t \in Range(b.tables) /\ b.rows[t] = a.rows[t]
  /\ \A t \in {"bookmark", "comment"} :
        {r.id : r \in b.rows[t]} = {r.id : r \in a.rows[t]}

\* C21: a step of the migration that makes the file of the final name gives it the
\* content of the temporary file after every table-copy and derivation step was done;
\* a step that fails makes no file of the final name, leaves one there is as it was, and
\* leaves the temporary file
C21_FinalNameOnlyWhenComplete ==
  [][migration' # migration =>
       /\ (DestFile \notin DOMAIN disk /\ DestFile \in DOMAIN disk') =>
            /\ allStepsDone(disk[SourceFile], disk'[DestFile])
            /\ disk'[DestFile] = disk[TempFile]
            /\ TempFile \notin DOMAIN disk'
       /\ DestFile \in DOMAIN disk =>
            DestFile \in DOMAIN disk' /\ disk'[DestFile] = disk[DestFile]
       /\ migration'.pc = "failed" =>
            /\ DestFile \in DOMAIN disk' <=> DestFile \in DOMAIN disk
            /\ TempFile \in DOMAIN disk => TempFile \in DOMAIN disk']_vars

\* the migration failed after it had written rows: there is the half-migrated temporary
\* file and no file of the final name
C21_Witness ==
  /\ migration.pc = "failed"
  /\ TempFile \in DOMAIN disk
  /\ DestFile \notin DOMAIN disk
  /\ "user" \in Range(disk[TempFile].tables)
  /\ disk[TempFile].rows["user"] # {}
  /\ disk[TempFile].rows["comment"] = {}
  /\ disk[SourceFile].rows["comment"] # {}

\* the bookmark rows of the migrated file carry the comment counts of the source
countsMatch(a, b) ==
  \A old \in a.rows["bookmark"] :
     \E new \in b.rows["bookmark"] :
        /\ new.id = old.id
        /\ new.numComments = Cardinality({c \in a.rows["comment"] : c.bookmarkId = old.id})

\* C22: the migration of a version 3 source, run while no server was started on any
\* of the files, does not fail, and once it is done every bookmark of the source is in the
\* destination with numComments the number of source comments of that bookmark
C22_V3MigrationCompletesWithCounts ==
  (schemaVersionOf(disk[SourceFile]) = FROM /\ lastOp.op # "dbInit") =>
    /\ migration.pc # "failed"
    /\ migration.pc = "done" => countsMatch(disk[SourceFile], disk[DestFile])

\* C23: in the file a migration has made, the siblingIdx of the comments of a bookmark
\* with n comments are 1..n, and of two comments of one bookmark the one created
\* earlier has the smaller siblingIdx
C23_SiblingIdxOldestFirst ==
  migration.pc = "done" =>
    \A bk \in disk[DestFile].rows["bookmark"] :
       LET cs == {c \in disk[DestFile].rows["comment"] : c.bookmarkId = bk.id}
       IN  /\ {c.siblingIdx : c \in cs} = 1..Cardinality(cs)
           /\ \A c \in cs, d \in cs : c.createdTime < d.createdTime => c.siblingIdx < d.siblingIdx

\* a migration is done for a bookmark with two comments of which the one with the
\* larger id was created first
C23_Witness ==
  /\ migration.pc = "done"
  /\ \E bk \in disk[DestFile].rows["bookmark"] :
        \E c \in disk[DestFile].rows["comment"], d \in disk[DestFile].rows["comment"] :
           /\ c.bookmarkId = bk.id /\ d.bookmarkId = bk.id
           /\ c.id < d.id /\ d.createdTime < c.createdTime
           /\ d.siblingIdx = 1 /\ c.siblingIdx = 2

\* the tables of the source that up(a, b) copies by its generic path
genericPath(a) ==
  {t \in Range(a.tables) :
     /\ t \notin {"_yamanote_db_state"}
     /\ t \notin {"bookmark", "comment"}}

\* the column set of table t of the source differs from that of the schema migrated to
columnsDiffer(a, t) ==
  \/ t \notin Range(schemaTables(TO)) \cup {"_change_log"}
  \/ a.columns[t] # justCreateBackupTable(execSchema(TO)).columns[t]

\* C24: a migration whose source has a table of the generic copy path with a column
\* set other than the destination's does not complete, whatever the rows of that table
C24_ChangedColumnsFailLoudly ==
  (\E t \in genericPath(disk[SourceFile]) : columnsDiffer(disk[SourceFile], t)) =>
    migration.pc # "done"

\* C25: the migration from version 2 to 3 is not ended by an insert that violates a
\* unique constraint, and when its loop is over the destination has one blob row for
\* every hash and a blob row for the sha256 of every media row
C25_DuplicateHashSwallowed ==
  /\ migration.pc # "failed"
  /\ \A b1 \in blob, b2 \in blob : b1.sha256 = b2.sha256 => b1 = b2
  /\ migration.pc = "done" =>
       \A m \in media : Cardinality({b \in blob : b.sha256 = m.sha256}) = 1

\* the loop is over after both inserts had violated their constraint: one content was
\* stored under two paths, and one path of one bookmark was met twice
C25_Witness ==
  /\ migration.pc = "done"
  /\ \E m1 \in media, m2 \in media : m1.sha256 = m2.sha256 /\ m1.path # m2.path
  /\ Len(migration.turns) > Cardinality(media)
  /\ Cardinality(media) > Cardinality(blob)

\* C26: while the file of the final name that a run of the migration has made is
\* there, no step of a later run changes it, the renaming of the later run fails, and
\* no later run gets done
C26_SecondRunRejected ==
  [][(/\ migration' # migration
      /\ DestFile \in DOMAIN disk
      /\ schemaVersionOf(disk[DestFile]) = TO) =>
       /\ DestFile \in DOMAIN disk'
       /\ disk'[DestFile] = disk[DestFile]
       /\ migration'.pc # "done"
       /\ migration.pc = "rename" => migration'.pc = "failed"]_vars

\* the second run has made the whole file again under its temporary name and was
\* refused the final name, which the file of the first run still has
C26_Witness ==
  /\ migration.pc = "failed"
  /\ DestFile \in DOMAIN disk
  /\ schemaVersionOf(disk[DestFile]) = TO
  /\ TempFile \in DOMAIN disk
  /\ disk[TempFile] = disk[DestFile]
  /\ disk[DestFile].rows["comment"] # {}

\* the step is a statement on the server's file
statementStep ==
  /\ lastOp'.op \in {"INSERT", "UPDATE", "DELETE"}
  /\ (lastOp' # lastOp \/ disk' # disk)

\* the statement of the step is on a table with triggers and no constraint of the table
\* forbids it
statementAllowed ==
  LET db == disk[ServerFile]
      table == lastOp'.table
      rows == db.rows[table]
      old == CHOOSE r \in rows : r.id = lastOp'.id
  IN  /\ tracks(db, table) # {}
      /\ CASE lastOp'.op = "INSERT" -> ~constraintError(table, rows, lastOp'.values)
           [] lastOp'.op = "UPDATE" ->
                ~constraintError(table, rows \ {old}, spread(old, lastOp'.values))
           [] lastOp'.op = "DELETE" -> TRUE

\* the step appends one entry to the change log of the server's file, with the action,
\* table name and row id of its statement, and leaves the entries there were
appended ==
  LET log == disk[ServerFile].rows["_change_log"]
      logAfter == disk'[ServerFile].rows["_change_log"]
  IN  /\ log \subseteq logAfter
      /\ Cardinality(logAfter \ log) = 1
      /\ \A e \in logAfter \ log :
            /\ e.action = lastOp'.op
            /\ e.table_name = lastOp'.table
            /\ e.obj_id = lastOp'.id

\* C27: on a table with triggers, every insert, update and delete of one row that no
\* constraint of the table forbids appends one entry to the change log, with the action
\* of the statement, the name of the table and the id of the row; so does an update that
\* sets ignored columns only
C27_EveryMutationLogged ==
  [][(statementStep /\ statementAllowed) => appended]_vars

\* the entries the step writes to the change log
written == disk'[ServerFile].rows["_change_log"] \ disk[ServerFile].rows["_change_log"]

\* C28: the entry an update writes holds a map whose keys are the columns not ignored
\* for the table whose value before the update differs from the value after it, each
\* with the value before
C28_UpdateMapIsChangedColumns ==
  [][(statementStep /\ lastOp'.op = "UPDATE") =>
       \A e \in written :
          LET table == lastOp'.table
              old == CHOOSE r \in disk[ServerFile].rows[table] : r.id = lastOp'.id
              new == spread(old, lastOp'.values)
              kept == columns(disk[ServerFile], table) \ ignoreColumns(table)
          IN  /\ DOMAIN e.oldvals = {c \in kept : old[c] # new[c]}
              /\ \A c \in DOMAIN e.oldvals : e.oldvals[c] = old[c]]_vars

\* an update of a bookmark has set title and render to a new value and title alone is
\* in the map of its entry
C28_Witness ==
  /\ lastOp.op = "UPDATE" /\ ~lastOp.threw
  /\ lastOp.table = "bookmark"
  /\ DOMAIN lastOp.values = {"title", "render"}
  /\ \E e \in disk[ServerFile].rows["_change_log"] :
        /\ e.action = "UPDATE" /\ e.obj_id = lastOp.id
        /\ DOMAIN e.oldvals = {"title"}
        /\ \E r \in disk[ServerFile].rows["bookmark"] :
              r.id = lastOp.id /\ r.title # e.oldvals["title"] /\ r.render = r.title

\* C29: the entry a delete writes holds a map of every column not ignored for the table
\* to the value the deleted row had in it
C29_DeleteMapIsWholeRow ==
  [][(statementStep /\ lastOp'.op = "DELETE") =>
       \A e \in written :
          LET table == lastOp'.table
              old == CHOOSE r \in disk[ServerFile].rows[table] : r.id = lastOp'.id
              kept == columns(disk[ServerFile], table) \ ignoreColumns(table)
          IN  /\ DOMAIN e.oldvals = kept
              /\ \A c \in kept : e.oldvals[c] = old[c]]_vars

\* a backup row was deleted: the row is gone and its entry holds its id, bookmarkId,
\* original and createdTime, and not its content
C29_Witness ==
  /\ lastOp.op = "DELETE" /\ ~lastOp.threw
  /\ lastOp.table = "backup"
  /\ \A r \in disk[ServerFile].rows["backup"] : r.id # lastOp.id
  /\ \E e \in disk[ServerFile].rows["_change_log"] :
        /\ e.action = "DELETE" /\ e.table_name = "backup" /\ e.obj_id = lastOp.id
        /\ DOMAIN e.oldvals = {"id", "bookmarkId", "original", "createdTime"}
        /\ e.oldvals["original"] = MaxValue

\* the server was started again on its file, which had rows and triggers already, and
\* nothing was run since
reinstalled ==
  /\ lastOp.op = "dbInit" /\ ~lastOp.threw
  /\ ServerFile \in DOMAIN disk
  /\ disk[ServerFile].rows["_change_log"] # {}

\* C30: dbInit on a file whose tables have their triggers throws no error, leaves the
\* change log as it is and leaves one set of triggers for each table; the statement run
\* next on one of the tables appends one entry, as it did before
C30_ReinstallIdempotent ==
  [][/\ (/\ lastOp'.op = "dbInit"
         /\ ServerFile \in DOMAIN disk
         /\ \A t \in TrackedTables : tracks(disk[ServerFile], t) # {}) =>
          /\ ~lastOp'.threw
          /\ disk'[ServerFile].rows["_change_log"] = disk[ServerFile].rows["_change_log"]
          /\ \A t \in TrackedTables : Cardinality(tracks(disk'[ServerFile], t)) = 1
     /\ (reinstalled /\ statementStep /\ statementAllowed) => appended]_vars

\* the columns of a row that cache its rendered fragments
renderFragments(table) ==
  CASE table = "bookmark" -> {"render"}
    [] table = "comment" -> {"contentOnlyRender", "fullRender"}
    [] OTHER -> {}

\* C40: an update of a bookmark or comment row that sets cached render fragments only
\* writes an entry whose map of old values is empty
C40_RerenderLogsNoFragment ==
  [][(/\ statementStep
      /\ lastOp'.op = "UPDATE"
      /\ lastOp'.table \in {"bookmark", "comment"}
      /\ DOMAIN lastOp'.values \subseteq renderFragments(lastOp'.table)) =>
       \A e \in written : DOMAIN e.oldvals = {}]_vars

\* the same for the rows of bookmark alone
bookmarkRerenderLogsNoFragment ==
  [][(/\ statementStep
      /\ lastOp'.op = "UPDATE"
      /\ lastOp'.table = "bookmark"
      /\ DOMAIN lastOp'.values \subseteq renderFragments("bookmark")) =>
       \A e \in written : DOMAIN e.oldvals = {}]_vars

\* C31: an entry of the change log of the server's file stays in it, as it is, over
\* every step: statements on the tables and the server starting again only add entries
C31_LogAppendOnly ==
  [][(ServerFile \in DOMAIN disk) =>
       /\ ServerFile \in DOMAIN disk'
       /\ \A e \in disk[ServerFile].rows["_change_log"] :
             e \in disk'[ServerFile].rows["_change_log"]]_vars

\* the server was started again on a file whose log holds the insert and the delete of
\* one row
C31_Witness ==
  /\ reinstalled
  /\ \E e, f \in disk[ServerFile].rows["_change_log"] :
        /\ e.action = "INSERT" /\ f.action = "DELETE"
        /\ e.table_name = f.table_name /\ e.obj_id = f.obj_id
        /\ e.id < f.id

\* C38: when the migration is done the destination holds one row of _yamanote_db_state,
\* the one of its own schema with schemaVersion 4, whatever row the source holds
C38_OneStateRowOfVersionTo ==
  migration.pc = "done" =>
    disk[DestFile].rows["_yamanote_db_state"] = {[schemaVersion |-> TO]}

\* a source that says version 3, with bookmarks, was migrated
C38_Witness ==
  /\ migration.pc = "done"
  /\ disk[SourceFile].rows["_yamanote_db_state"] = {[schemaVersion |-> FROM]}
  /\ disk[DestFile].rows["bookmark"] # {}

\* the entries of the change log of a file; a file without the table has none
changeLog(fname) ==
  IF "_change_log" \in Range(tables(disk[fname])) THEN disk[fname].rows["_change_log"] ELSE {}

\* C39: when the migration is done the entries of the change log of the destination
\* are those of the source: each entry of the source is there as it was, and the rows
\* the migration inserted into the other tables added none
C39_ChangeLogCarriedOver ==
  migration.pc = "done" => changeLog(DestFile) = changeLog(SourceFile)

\* a source with two entries, bookmarks and comments was migrated
C39_Witness ==
  /\ migration.pc = "done"
  /\ Cardinality(changeLog(SourceFile)) = 2
  /\ Cardinality(changeLog(DestFile)) = 2
  /\ disk[DestFile].rows["bookmark"] # {}
  /\ disk[DestFile].rows["comment"] # {}

\* the start of a sibling link of a full fragment of index.ts; the id of the bookmark,
\* -comment- and the target follow it
codaHref == Tok("    <a class=\"emojilink coda-prev\" href=\"#bookmark-")

\* what the sibling links of a fragment name after -comment-
codaTargets(f) == {f[i + 3] : i \in {j \in DOMAIN f : f[j] = codaHref}}

\* the comments next to c by creation time among those of its bookmark
siblingsNextTo(cm, c) ==
  LET part == Reverse(commentsNewestFirst(cm, cm[c].bookmarkId))
      idx == IndexIn(part, c)
  IN  {part[i] : i \in {idx - 1, idx + 1} \cap DOMAIN part}

\* the fragment shows a position idx/total
hasIndicator(f) == \E i \in DOMAIN f : f[i] = Tok("    (") /\ f[i + 2] = Tok("/")

\* C33: the full fragment of a comment links to the sibling after it exactly when there
\* is one and to the sibling before it exactly when there is one, so the links name
\* comments of the bookmark that exist, and it shows idx/total exactly when the bookmark
\* has more than one comment
C33_SiblingLinksExist ==
  \A c \in DOMAIN comment :
     LET f == comment[c].fullRender
         total == Cardinality({d \in DOMAIN comment : comment[d].bookmarkId = comment[c].bookmarkId})
     IN  f # EmptyStr =>
           /\ codaTargets(f) = {Num(d) : d \in siblingsNextTo(comment, c)}
           /\ hasIndicator(f) <=> total > 1

\* the same of the fragment rerenderComment of renderers.ts stores, whose links name
\* sibling indexes: for a comment of index i in a bookmark of N comments, i <= N
rerenderCommentLinksExist ==
  LET f == comment[probe.id].fullRender
      i == comment[probe.id].siblingIdx
      N == probe.bookmark.numComments
      hrefs == {Tok("<a class=\"emojilink coda-prev\" href=\"#"),
                Tok("<a class=\"emojilink coda-next\" href=\"#")}
  IN  (probe.calls > 0 /\ i <= N) =>
        /\ {f[j + 4] : j \in {k \in DOMAIN f : f[k] \in hrefs}} = {Num(k) : k \in {i - 1, i + 1} \cap 1..N}
        /\ (\E j \in DOMAIN f : f[j] = Tok("<span class=\"coda-this\">")) <=> N > 1

\* the full fragment f shows the bookmark id b and the position idx/total
showsPosition(f, b, idx, total) ==
  /\ \E i \in DOMAIN f : f[i] = Tok("    data-bookmarkid=\"") /\ f[i + 1] = Num(b)
  /\ \E j \in DOMAIN f : f[j] = Tok("    (") /\ f[j + 1] = Num(idx) /\ f[j + 3] = Num(total)

\* C34: the fullRender stored for a comment shows the id of the bookmark the comment
\* belongs to now, the number of comments that bookmark has now, and the rank of the
\* comment by creation time among them
C34_FullRenderCurrent ==
  \A c \in DOMAIN comment :
     LET part == Reverse(commentsNewestFirst(comment, comment[c].bookmarkId))
     IN  showsPosition(comment[c].fullRender, comment[c].bookmarkId, IndexIn(part, c), Len(part))

\* C36: the bookmarkId of every comment row is the id of a bookmark row
C36_CommentsHaveBookmark ==
  \A c \in DOMAIN comment : comment[c].bookmarkId \in DOMAIN bookmark

\* C37: every bookmark row has a comment row
C37_BookmarksHaveComment ==
  \A b \in DOMAIN bookmark : \E c \in DOMAIN comment : comment[c].bookmarkId = b

\* a merge moved the comment of one bookmark into another and deleted the first
C37_Witness ==
  /\ lastOp.op = "merge" /\ lastOp.code = 200
  /\ sqlite_sequence.bookmark >= 2
  /\ Cardinality(DOMAIN bookmark) = 1
  /\ \A b \in DOMAIN bookmark :
        Cardinality({c \in DOMAIN comment : comment[c].bookmarkId = b}) >= 2

\* the bookmark a clip request names has a backup made less than the throttle ago
recentBackup(userId, r) ==
  \E b \in bookmarkOf(bookmark, r.url, r.title, userId) :
     \E k \in DOMAIN backup :
        /\ backup[k].bookmarkId = b
        /\ clock - backup[k].createdTime < SAVE_BACKUP_THROTTLE_MILLISECONDS

\* what the claim says htmlWanted is for a clip request
wanted(userId, r) == r.url # EmptyStr /\ r.html = EmptyStr /\ ~recentBackup(userId, r)

\* C35: a clip request with a url or a title is answered 200 with htmlWanted true when
\* it has a url, has no html and the bookmark has no backup made within the throttle,
\* and with htmlWanted false in every other case
C35_HtmlWantedUnlessRecentBackup ==
  [][\A userId \in Users, r \in ClipRequests :
        Clip_v5(userId, r.url, r.title, r.comment, r.quote, r.html) =>
          /\ lastOp'.code = 200
          /\ lastOp'.htmlWanted = wanted(userId, r)]_vars

\* the same for the requests that carry no html
htmlWantedWithoutHtml ==
  [][\A userId \in Users, r \in {q \in ClipRequests : q.html = EmptyStr} :
        Clip_v5(userId, r.url, r.title, r.comment, r.quote, r.html) =>
          /\ lastOp'.code = 200
          /\ lastOp'.htmlWanted = wanted(userId, r)]_vars

\* a request without html for a bookmark with a recent backup was answered
recentBackupAnswered ==
  /\ lastOp.op = "addComment" /\ lastOp.code = 200
  /\ "htmlWanted" \in DOMAIN lastOp
  /\ ~lastOp.htmlWanted
  /\ bookmark[lastOp.bookmarkId].url # EmptyStr
  /\ \E k \in DOMAIN backup : backup[k].bookmarkId = lastOp.bookmarkId

\* C32: a download that fails (fetch throws, the response is not ok, it has no
\* content-type) removes and changes no bookmark, comment or backup row
C32_FailureLeavesRows ==
  [][\A t \in 1..MaxSnapshots, outcome \in Failures :
       FetchSettles(t, outcome) =>
         (bookmark' = bookmark /\ comment' = comment /\ backup' = backup)]_vars

\* a step of a download removes no row, and changes no bookmark row, no comment row and
\* no column of a backup row but content
downloadKeepsAllButContent ==
  [][\A t \in 1..MaxSnapshots :
       ((\E outcome \in Outcomes : FetchSettles(t, outcome)) \/ SleepEnds(t)) =>
         (/\ bookmark' = bookmark
          /\ comment' = comment
          /\ DOMAIN backup' = DOMAIN backup
          /\ \A k \in DOMAIN backup :
               backup'[k] = [backup[k] EXCEPT !.content = backup'[k].content])]_vars

\* the request is answered with 200 while its download waits for its first fetch
repliedWhileFetching ==
  /\ lastOp.op = "createBookmark"
  /\ lastOp.code = 200
  /\ req # << >>
  /\ req[Len(req)].bookmarkId = lastOp.bookmarkId
  /\ req[Len(req)].pc = "fetch"

\* a download ended after a failure, and the snapshot of its bookmark is no more as
\* the request stored it
rewrittenAfterFailure ==
  \E t \in DOMAIN req :
    /\ req[t].pc = "done"
    /\ req[t].console # << >>
    /\ \E k \in DOMAIN backup :
         backup[k].bookmarkId = req[t].bookmarkId /\ backup[k].content # backup[k].original

\* the content of a snapshot is its own original, as stored or as serialised
contentOfOwnOriginal ==
  \A k \in DOMAIN backup :
    backup[k].bookmarkId \in DOMAIN bookmark =>
      backup[k].content \in
        {backup[k].original,
         serialize(backup[k].original, bookmark[backup[k].bookmarkId].url, backup[k].bookmarkId)}

====
